---------------------------- MODULE Spec2Model ----------------------------
(***************************************************************************)
(* A model of the RotMG bot: the two control loops (logic/bot.py,          *)
(* logic/bot_linux.py), the health estimators (vision/detection.py and     *)
(* RotMGbot.get_hp_percent), the dodge helper and the key executor         *)
(* (input/keyboard.py, RotMGbot.move_towards / stop_movement).             *)
(***************************************************************************)
EXTENDS Integers, Sequences, FiniteSets, TLC

VARIABLES
    frame,      \* the frame perceived (in a loop: the last frame captured)
    region,     \* the configured health region (hp_bar / hp_bar_region)
    hpOut,      \* health estimator applied alone: [impl, ocr, value]
    bullet,     \* dodge helper applied alone: the bullet's centre
    player,     \* the configured player position
    dodgeOut,   \* dodge helper applied alone: the direction returned
    platform,   \* "win" (RotMGbot) or "linux" (RotMGbotLinux)
    pc,         \* where the loop's thread is
    running,    \* _running
    mode,       \* movement_mode
    threshold,  \* auto_nexus_percent
    keybinds,   \* keybinds
    held,       \* the keys the controller holds down
    lowCount,   \* _low_hp_consecutive_count (RotMGbot)
    failures,   \* consecutive_failures (RotMGbotLinux.run)
    loopCount,  \* loop_count
    snapshot,   \* what the last iteration perceived
    emitted,    \* the executor calls the last iteration made, in order
    raised,     \* whether the last iteration ended in its exception handler
    nexusTaps,  \* how many times the nexus key was tapped (counted up to 2)
    lowRun,     \* how many readings in a row were known and <= threshold
    stopCalls,  \* StopMovement applied alone: how many calls were made
    heldOnce,   \* StopMovement applied alone: the keys held after the first call
    stopRequested,  \* BotWindow.stop_bot has asked the loop to stop
    killPressed,    \* Ctrl+Q has been pressed while the loop was running
    released,   \* the loop's movement-key release step has run
    reported,   \* the loop has emitted "Bot stopped."
    failRun,    \* how many captures in a row have failed (either loop)
    lastFail,   \* the detector that raised in the last iteration, or "none"
    detRan,     \* the detectors that ran to their end in the last iteration
    decided,    \* whether the last iteration reached its decision step
    startThr,   \* auto_nexus_percent when the iteration in flight began
    startMode,  \* movement_mode when the iteration in flight began
    screen,     \* template matching applied alone: the screen image
    templates,  \* template matching applied alone: the templates, by name
    matchOut,   \* template matching applied alone: what the matchers returned
    calFile,    \* config/calibration.json: absent, unreadable, or a version
    calStore,   \* detection.calibration_data: which contents it is bound to
    lastLoad,   \* what the last load_calibration() found the file to be
    calUsed,    \* the calibration lookups the iteration in flight has made
    calIter,    \* how many iterations have made all their lookups
    window,     \* capture applied alone: the game window that exists, if any
    handle,     \* capture applied alone: the window the bot tracks, if any
    capOut,     \* capture applied alone: what the last capture call returned
    capCalls,   \* capture applied alone: capture calls made so far
    lostAtCall, \* capture applied alone: the tracked window was gone at that call
    catalog,    \* detection pipeline alone: asset_index, the names by category
    pipeOut,    \* detection pipeline alone: the matchers built from the catalog
    ran         \* detection pipeline alone: the templates each detector matched

hpVars == <<frame, region, hpOut>>
dodgeVars == <<bullet, player, dodgeOut>>
cfgVars == <<platform, mode, threshold, keybinds>>
loopVars == <<pc, running, held, lowCount, failures, loopCount, snapshot, emitted,
              raised, nexusTaps, lowRun>>

keyVars == <<stopCalls, heldOnce>>
exitVars == <<stopRequested, killPressed, released, reported>>

\* What is recorded about a run in order to state its properties.
obsVars == <<failRun, lastFail, detRan, decided, startThr, startMode>>

matchVars == <<screen, templates, matchOut>>

\* The variables only the specifications of single operations use.
calVars == <<calFile, calStore, lastLoad, calUsed, calIter>>
capVars == <<window, handle, capOut, capCalls, lostAtCall>>
pipeVars == <<catalog, pipeOut, ran>>
extVars == <<keyVars, matchVars, calVars, capVars, pipeVars>>

vars == <<frame, region, hpOut, bullet, player, dodgeOut, platform, pc, running,
          mode, threshold, keybinds, held, lowCount, failures, loopCount, snapshot,
          emitted, raised, nexusTaps, lowRun, extVars, exitVars, obsVars>>

-----------------------------------------------------------------------------
(* Bounds of the model.                                                    *)

MaxW == 2       \* widest frame, in pixels
MaxH == 2       \* tallest frame, in pixels

-----------------------------------------------------------------------------
(* Small arithmetic helpers.                                               *)

Min(a, b) == IF a < b THEN a ELSE b
Max(a, b) == IF a > b THEN a ELSE b
Abs(a) == IF a < 0 THEN -a ELSE a

\* A health value is the exact fraction n/d with d > 0 (the code holds it as an
\* int in detection.py and as a float in bot.py), or the unknown sentinel
\* (Python None), written here as the record with d = 0.
None == [n |-> 0, d |-> 0]
Num(n, d) == [n |-> n, d |-> d]
IsNum(v) == v.d # 0
Gt(a, b) == a.n * b.d > b.n * a.d
Le(a, b) == a.n * b.d <= b.n * a.d

-----------------------------------------------------------------------------
(* Frames and pixels.  A frame is h rows by w columns of BGR pixels; the   *)
(* frames drawn here are made of vertical stripes, every pixel of a column *)
(* having the colour of its stripe.                                        *)

Red == <<0, 0, 255>>        \* BGR
Green == <<0, 255, 0>>
Black == <<0, 0, 0>>
Palette == {Red, Green, Black}

Max3(p) == Max(p[1], Max(p[2], p[3]))
Min3(p) == Min(p[1], Min(p[2], p[3]))

\* cv2.cvtColor(.., COLOR_BGR2HSV) on 8-bit pixels: V = max, S = 255*(V-min)/V,
\* H = (degrees of hue)/2, each rounded to the nearest integer.
RoundDiv(a, b) == (2 * a + b) \div (2 * b)
HueDeg(p) ==
    LET b == p[1] g == p[2] r == p[3] v == Max3(p) d == Max3(p) - Min3(p) IN
    IF d = 0 THEN 0
    ELSE IF v = r THEN (IF g >= b THEN RoundDiv(60 * (g - b), d)
                                  ELSE 360 - RoundDiv(60 * (b - g), d))
    ELSE IF v = g THEN 120 + (IF b >= r THEN RoundDiv(60 * (b - r), d)
                                        ELSE -RoundDiv(60 * (r - b), d))
    ELSE 240 + (IF r >= g THEN RoundDiv(60 * (r - g), d)
                          ELSE -RoundDiv(60 * (g - r), d))
BGR2HSV(p) ==
    LET v == Max3(p) IN
    <<HueDeg(p) \div 2,
      IF v = 0 THEN 0 ELSE RoundDiv(255 * (v - Min3(p)), v),
      v>>

\* cv2.inRange on one pixel.
InRange(q, lower, upper) == \A i \in 1..3 : lower[i] <= q[i] /\ q[i] <= upper[i]

\* A frame is [h, w, runs]: runs lists the stripes from left to right, each
\* [lo, hi, col] covering the columns lo..(hi - 1); together they cover 0..(w - 1).
Stripe(lo, hi, col) == [lo |-> lo, hi |-> hi, col |-> col]

\* Every stripe frame of up to MaxH rows and MaxW one-pixel columns.
Frames ==
    UNION { { [h |-> hh, w |-> ww, runs |-> [i \in 1..ww |-> Stripe(i - 1, i, cs[i])]] :
              cs \in [1..ww -> Palette] } :
            hh \in 1..MaxH, ww \in 1..MaxW }

\* numpy basic slicing a[lo:hi] on an axis of length n: the indices selected are
\* lo'..(hi' - 1), a negative bound counting from the end.
PySlice(lo, hi, n) ==
    LET start == IF lo < 0 THEN Max(lo + n, 0) ELSE Min(lo, n)
        stop == IF hi < 0 THEN Max(hi + n, 0) ELSE Min(hi, n)
    IN  [lo |-> start, hi |-> Max(start, stop)]

SliceLen(sl) == sl.hi - sl.lo

\* frame[y1:y2, x1:x2]: the rows and the columns selected.
SubRegion(f, y1, y2, x1, x2) ==
    [rows |-> PySlice(y1, y2, f.h), cols |-> PySlice(x1, x2, f.w)]

\* The number of pixels of a sub-region (region.size is three times this).
RegionPixels(px) == SliceLen(px.rows) * SliceLen(px.cols)

\* The number of columns lo..(hi - 1), among the first i stripes, whose colour
\* satisfies inRange(lower, upper).
RECURSIVE ColsInRange(_, _, _, _, _, _)
ColsInRange(runs, i, lo, hi, lower, upper) ==
    IF i = 0 THEN 0
    ELSE (IF InRange(BGR2HSV(runs[i].col), lower, upper)
          THEN Max(0, Min(runs[i].hi, hi) - Max(runs[i].lo, lo)) ELSE 0)
         + ColsInRange(runs, i - 1, lo, hi, lower, upper)

\* cv2.countNonZero(cv2.inRange(cvtColor(region, BGR2HSV), lower, upper)).
CountInRange(f, px, lower, upper) ==
    SliceLen(px.rows)
    * ColsInRange(f.runs, Len(f.runs), px.cols.lo, px.cols.hi, lower, upper)

-----------------------------------------------------------------------------
(* vision/detection.py : get_hp_percent                                    *)

DefaultHpBar == [x1 |-> 50, y1 |-> 900, x2 |-> 250, y2 |-> 920]
DefaultHpRed == 150

\* calibration_data.get('hp_bar', {}) with the per-field defaults.
HpBarOf(reg) ==
    IF ~reg.present THEN DefaultHpBar
    ELSE [x1 |-> reg.x1, y1 |-> reg.y1, x2 |-> reg.x2, y2 |-> reg.y2]

ClampCoord(v, n) == Max(0, Min(v, n - 1))

LinuxHpRegion(f, reg) ==
    LET c == HpBarOf(reg)
        cx1 == ClampCoord(c.x1, f.w)
        cy1 == ClampCoord(c.y1, f.h)
        cx2 == ClampCoord(c.x2, f.w)
        cy2 == ClampCoord(c.y2, f.h)
    IN  SubRegion(f, Min(cy1, cy2), Max(cy1, cy2), Min(cx1, cx2), Max(cx1, cx2))

\* int((red_pixels / total_pixels) * 100): the exact quotient, truncated.  The
\* float product of the code truncates to the same integer for every region
\* drawn here (totals below 50 pixels, and the ratios 0, 1/4, 1/2 and 1).
PercentOf(red, total) == (red * 100) \div total

DetectionGetHpPercent(f, reg, hpRed) ==
    LET px == LinuxHpRegion(f, reg)
        red == CountInRange(f, px, <<0, hpRed, 100>>, <<10, 255, 255>>)
    IN  IF RegionPixels(px) = 0 THEN None
        ELSE Num(Max(0, Min(100, PercentOf(red, RegionPixels(px)))), 1)

-----------------------------------------------------------------------------
(* logic/bot.py : RotMGbot.get_hp_percent                                  *)

\* The hp_bar_region entry of the settings for the rectangle <<x1,y1>>..<<x2,y2>>:
\* the same rectangle, given as x, y, width, height.
WinHpCfg(reg) ==
    [x |-> reg.x1, y |-> reg.y1, width |-> reg.x2 - reg.x1, height |-> reg.y2 - reg.y1]

\* The regions the estimator attempts, in order.
WinHpRegions(f, reg) ==
    LET c == WinHpCfg(reg) IN
    IF reg.present
    THEN LET px == SubRegion(f, c.y, c.y + c.height, c.x, c.x + c.width)
         IN  IF RegionPixels(px) > 0 THEN <<px>> ELSE <<>>
    ELSE << SubRegion(f, 60, 90, f.w - 350, f.w - 50),
            SubRegion(f, 80, 110, f.w - 350, f.w - 50),
            SubRegion(f, 100, 130, f.w - 350, f.w - 50),
            SubRegion(f, 70, 100, f.w - 400, f.w - 50) >>

\* The OCR candidate of one region: the text matched (\d+)/(\d+) as cur/mx and
\* mx > 0 and 0 <= cur <= mx; otherwise no candidate.
OcrValid(o) == o.matched /\ o.mx > 0 /\ 0 <= o.cur /\ o.cur <= o.mx
OcrCandidate(o) == Num(o.cur * 100, o.mx)

\* The colour-density tier of one region; -1 is "no meaningful signal".
ColorTier(green, total) ==
    LET t == Max(1, total) IN
    IF green * 100 >= 8 * t THEN Num(100, 1)
    ELSE IF green * 100 >= 4 * t THEN Num(75, 1)
    ELSE IF green * 100 >= 2 * t THEN Num(25, 1)
    ELSE Num(-1, 1)

\* The candidates of one region: OCR first, then the colour tier.
WinHpCandidates(f, px, o) ==
    IF RegionPixels(px) = 0 THEN <<>>
    ELSE (IF OcrValid(o) THEN <<OcrCandidate(o)>> ELSE <<>>)
         \o <<ColorTier(CountInRange(f, px, <<40, 150, 150>>, <<80, 255, 255>>),
                        RegionPixels(px))>>

\* An estimator that keeps the candidate it met last.
WinHpLast(cands, i) == IF i = 0 THEN Num(-1, 1) ELSE cands[i]

\* "if candidate > best_hp_percent: best_hp_percent = candidate", for the first
\* i candidates of cands in turn, starting from -1.0.
RECURSIVE WinHpFold(_, _)
WinHpFold(cands, i) ==
    IF i = 0 THEN Num(-1, 1)
    ELSE IF Gt(cands[i], WinHpFold(cands, i - 1)) THEN cands[i]
    ELSE WinHpFold(cands, i - 1)

\* All candidates, region by region in the order the regions are attempted.
RECURSIVE WinHpAll(_, _, _, _)
WinHpAll(f, regions, o, i) ==
    IF i = 0 THEN <<>>
    ELSE WinHpAll(f, regions, o, i - 1) \o WinHpCandidates(f, regions[i], o)

\* return None if best_hp_percent < 0 else float(min(100.0, max(0.0, best)))
WinHpResult(best) ==
    IF best.n < 0 THEN None
    ELSE IF best.n > 100 * best.d THEN Num(100, 1)
    ELSE best

WinGetHpPercent(f, reg, o) ==
    LET cands == WinHpAll(f, WinHpRegions(f, reg), o, Len(WinHpRegions(f, reg)))
    IN  WinHpResult(WinHpFold(cands, Len(cands)))

-----------------------------------------------------------------------------
(* vision/detection.py : is_bullet_dangerous, get_dodge_direction          *)

\* calibration_data.get('player_position', {}) with its defaults, and the
\* default danger radius.
DefaultPlayerX == 960
DefaultPlayerY == 540
DefaultDangerRadius == 50

Pos(x, y) == [x |-> x, y |-> y]

\* math.hypot(bx - px, by - py) < danger_radius, compared on the squares.
IsBulletDangerous(b, pp, radius) ==
    (b.x - pp.x) * (b.x - pp.x) + (b.y - pp.y) * (b.y - pp.y) < radius * radius

GetDodgeDirection(b, pp) ==
    IF Abs(b.x - pp.x) > Abs(b.y - pp.y)
    THEN (IF b.y < pp.y THEN "up" ELSE "down")
    ELSE (IF b.x < pp.x THEN "left" ELSE "right")

-----------------------------------------------------------------------------
(* Key bindings and the input controller (config/settings.py,              *)
(* input/keyboard.py, input/mouse.py).                                     *)

Missing == "<missing>"      \* the map holds no entry for the action
\* The entry is null (JSON null, Python None) or the empty string the settings
\* window stores for a cleared field: both are falsy, and the controller
\* rejects both.
Null == "<null>"

MoveActions == {"move_up", "move_down", "move_left", "move_right"}
BindActions == MoveActions \cup {"attack", "nexus", "drop_item"}

\* DEFAULT_SETTINGS["keybinds"].
DefaultKeybinds ==
    [a \in BindActions |->
        CASE a = "move_up" -> "w"
          [] a = "move_down" -> "s"
          [] a = "move_left" -> "a"
          [] a = "move_right" -> "d"
          [] a = "attack" -> "left"
          [] a = "nexus" -> "r"
          [] OTHER -> Null]

\* config.get('keybinds', {}) when the configuration holds no keybinds.
EmptyKeybinds == [a \in BindActions |-> Missing]

\* keybinds.get(action, default)
Get(kb, a, default) == IF kb[a] = Missing THEN default ELSE kb[a]

\* The controller's press / release: a key that is None is rejected with an
\* exception, any other key is pressed or released (releasing a key that is
\* not held is accepted).
Press(k) == <<"press", k>>
Release(k) == <<"release", k>>

ApplyOp(op, h) == IF op[1] = "press" THEN h \cup {op[2]} ELSE h \ {op[2]}

\* Runs key operations in order until one raises: the keys held afterwards and
\* whether an exception was raised.
RECURSIVE RunOps(_, _)
RunOps(ops, h) ==
    IF ops = <<>> THEN [held |-> h, raised |-> FALSE]
    ELSE IF Head(ops)[2] = Null THEN [held |-> h, raised |-> TRUE]
    ELSE RunOps(Tail(ops), ApplyOp(Head(ops), h))

\* keyboard.tap_key(key)
TapKey(k) == <<Press(k), Release(k)>>

\* keyboard.move_towards(dx, dy, controller, keybinds)
KbMoveTowards(dx, dy, kb) ==
    LET left == Get(kb, "move_left", "a")
        right == Get(kb, "move_right", "d")
        up == Get(kb, "move_up", "w")
        down == Get(kb, "move_down", "s")
    IN  IF Abs(dx) > Abs(dy)
        THEN (IF dx < 0 THEN <<Press(left), Release(right)>>
                        ELSE <<Press(right), Release(left)>>)
             \o <<Release(up), Release(down)>>
        ELSE (IF dy < 0 THEN <<Press(up), Release(down)>>
                        ELSE <<Press(down), Release(up)>>)
             \o <<Release(left), Release(right)>>

\* keyboard.move_direction(direction, controller, keybinds): a binding that is
\* None is skipped ("if not key: return").
KbMoveDirection(dir, kb) ==
    LET key == CASE dir = "up" -> Get(kb, "move_up", "w")
                 [] dir = "down" -> Get(kb, "move_down", "s")
                 [] dir = "left" -> Get(kb, "move_left", "a")
                 [] OTHER -> Get(kb, "move_right", "d")
    IN  IF key = Null THEN <<>> ELSE <<Press(key), Release(key)>>

\* keyboard.release_movement_keys(controller, keybinds): releases the key of
\* every move_* entry the map holds; a release that raises is skipped.
KbReleaseMovementKeys(kb, h) ==
    h \ { kb[a] : a \in { m \in MoveActions : kb[m] # Missing /\ kb[m] # Null } }

\* RotMGbot.move_towards(direction), direction = (dx, dy)
WinMoveTowards(dx, dy, kb) ==
    IF Abs(dx) > Abs(dy)
    THEN (IF dx > 0
          THEN <<Press(Get(kb, "move_right", "d")), Release(Get(kb, "move_left", "a"))>>
          ELSE <<Press(Get(kb, "move_left", "a")), Release(Get(kb, "move_right", "d"))>>)
    ELSE (IF dy > 0
          THEN <<Press(Get(kb, "move_down", "s")), Release(Get(kb, "move_up", "w"))>>
          ELSE <<Press(Get(kb, "move_up", "w")), Release(Get(kb, "move_down", "s"))>>)

\* RotMGbot.stop_movement(): the default is 'wasd'[key.index('move_')], and
\* 'move_' starts every action name at index 0, so the default is always 'w'.
WinStopDefault(a) == "w"
WinStopMovement(kb) ==
    << Release(Get(kb, "move_up", WinStopDefault("move_up"))),
       Release(Get(kb, "move_down", WinStopDefault("move_down"))),
       Release(Get(kb, "move_left", WinStopDefault("move_left"))),
       Release(Get(kb, "move_right", WinStopDefault("move_right"))) >>

\* The key each movement call presses for an action: the bound key or its
\* default (the same in keyboard.move_towards and RotMGbot.move_towards).
MoveDefault(a) ==
    CASE a = "move_up" -> "w"
      [] a = "move_down" -> "s"
      [] a = "move_left" -> "a"
      [] OTHER -> "d"
DirKeys(kb) == { Get(kb, a, MoveDefault(a)) : a \in MoveActions }

-----------------------------------------------------------------------------
(* The executor calls an iteration makes.                                  *)

Call(type, x, y, d) == [type |-> type, x |-> x, y |-> y, d |-> d]
Retreat == Call("Retreat", 0, 0, "")            \* tap the nexus key
Aim(x, y) == Call("Aim", x, y, "")              \* mouse.move_to(x, y)
Attack == Call("Attack", 0, 0, "")              \* click, or tap the attack key
Move(dx, dy) == Call("Move", dx, dy, "")        \* move_towards((dx, dy))
Stop == Call("Stop", 0, 0, "")                  \* release the movement keys
Dodge(dir) == Call("Dodge", 0, 0, dir)          \* move_direction(dir)
Drop(slot) == Call("Drop", slot, 0, "")         \* drop_item(slot)
Loot(x, y, name) == Call("Loot", x, y, name)    \* move to the item and click

Done(h) == [held |-> h, raised |-> FALSE]

\* mouse.drop_item(slot, controller, keybinds): taps the drop key if one is bound.
DropItem(kb, h) ==
    IF Get(kb, "drop_item", Null) = Null THEN Done(h)
    ELSE RunOps(TapKey(Get(kb, "drop_item", Null)), h)

\* RotMGbot.attack(): a mouse click when the binding is 'left', else a key tap.
WinAttack(kb, h) ==
    IF Get(kb, "attack", "left") = "left" THEN Done(h)
    ELSE RunOps(TapKey(Get(kb, "attack", "left")), h)

\* One call of RotMGbotLinux.run on the controller.  The controller objects are
\* taken to offer the helpers the loop calls on them (tap_key, move_to, click).
LinuxExec(c, kb, h) ==
    CASE c.type = "Retreat" -> RunOps(TapKey(Get(kb, "nexus", "r")), h)
      [] c.type = "Move" -> RunOps(KbMoveTowards(c.x, c.y, kb), h)
      [] c.type = "Stop" -> Done(KbReleaseMovementKeys(kb, h))
      [] c.type = "Dodge" -> RunOps(KbMoveDirection(c.d, kb), h)
      [] c.type = "Drop" -> DropItem(kb, h)
      [] OTHER -> Done(h)

\* One call of RotMGbot.run on the controller.
WinExec(c, kb, h) ==
    CASE c.type = "Retreat" -> RunOps(TapKey(Get(kb, "nexus", "r")), h)
      [] c.type = "Move" -> RunOps(WinMoveTowards(c.x, c.y, kb), h)
      [] c.type = "Stop" -> RunOps(WinStopMovement(kb), h)
      [] c.type = "Attack" -> WinAttack(kb, h)
      [] OTHER -> Done(h)

ExecCall(pl, c, kb, h) == IF pl = "linux" THEN LinuxExec(c, kb, h) ELSE WinExec(c, kb, h)

\* The calls of one iteration, in order; a call that raises ends the iteration
\* (both loops catch the exception and go on to the next iteration).
RECURSIVE ExecCalls(_, _, _, _, _)
ExecCalls(pl, calls, kb, h, done) ==
    IF calls = <<>> THEN [held |-> h, raised |-> FALSE, done |-> done]
    ELSE LET r == ExecCall(pl, Head(calls), kb, h) IN
         IF r.raised THEN [held |-> r.held, raised |-> TRUE, done |-> Append(done, Head(calls))]
         ELSE ExecCalls(pl, Tail(calls), kb, r.held, Append(done, Head(calls)))

-----------------------------------------------------------------------------
(* The decisions of the two loops.                                         *)

NexusFrames == 15           \* should_nexus: consecutive low readings required
WinCloseRange == 200        \* RotMGbot.run: "too close" distance, kiting
LinuxCloseRange == 100      \* RotMGbotLinux.run: "too close" distance, kiting
MaxFailures == 10           \* RotMGbotLinux.run: max_failures
WorstSlot == 8              \* detection.find_worst_item_slot

\* frame centre: (w // 2, h // 2)
Centre(f) == Pos(f.w \div 2, f.h \div 2)
Dist2(a, b) == (a.x - b.x) * (a.x - b.x) + (a.y - b.y) * (a.y - b.y)

\* min(seq, key=distance to c): the first element at the smallest distance.
RECURSIVE Closest(_, _)
Closest(seq, c) ==
    IF Len(seq) = 1 THEN seq[1]
    ELSE LET rest == Closest(Tail(seq), c) IN
         IF Dist2(seq[1], c) <= Dist2(rest, c) THEN seq[1] ELSE rest

\* 1000 * cos and 1000 * sin of a multiple of ten degrees, rounded.
Cos90(a) ==
    CASE a = 0 -> 1000 [] a = 10 -> 985 [] a = 20 -> 940 [] a = 30 -> 866
      [] a = 40 -> 766 [] a = 50 -> 643 [] a = 60 -> 500 [] a = 70 -> 342
      [] a = 80 -> 174 [] OTHER -> 0
Cos1000(a) ==
    IF a <= 90 THEN Cos90(a)
    ELSE IF a <= 180 THEN -Cos90(180 - a)
    ELSE IF a <= 270 THEN -Cos90(a - 180)
    ELSE Cos90(360 - a)
Sin1000(a) == Cos1000((a + 270) % 360)

\* detection.get_item_value: the built-in table; an unknown name is worth -1.
ItemValue(name) ==
    CASE name = "Potion of Life" -> 5
      [] name = "Potion of Defense" -> 4
      [] name = "Tincture of Mana" -> 2
      [] name = "Wooden Sword" -> 0
      [] name = "Ancient Sword" -> 3
      [] OTHER -> -1

\* RotMGbotLinux.run, combat and movement.
LinuxIsKiting(md) == md = "Kiting"
LinuxCombat(f, md, enemies) ==
    IF enemies = <<>> THEN <<Stop>>
    ELSE LET target == enemies[1]
             dx == target.x - Centre(f).x
             dy == target.y - Centre(f).y
         IN  <<Aim(target.x, target.y), Attack>> \o
             (IF LinuxIsKiting(md)
              THEN (IF Dist2(target, Centre(f)) < LinuxCloseRange * LinuxCloseRange
                    THEN <<Move(-dx, -dy)>> ELSE <<Stop>>)
              ELSE <<Move(-dy, dx)>>)

\* RotMGbotLinux.run, dodging: the first dangerous bullet among the first three.
RECURSIVE FirstDangerous(_, _, _)
FirstDangerous(bs, pl, radius) ==
    IF bs = <<>> THEN <<>>
    ELSE IF IsBulletDangerous(Head(bs), pl, radius)
         THEN <<Dodge(GetDodgeDirection(Head(bs), pl))>>
         ELSE FirstDangerous(Tail(bs), pl, radius)
LinuxDodge(bullets, pl, radius) ==
    FirstDangerous(SubSeq(bullets, 1, Min(3, Len(bullets))), pl, radius)

\* RotMGbotLinux.run, looting: the first of the first two items whose value is
\* truthy and >= 0.
RECURSIVE FirstWanted(_)
FirstWanted(items) ==
    IF items = <<>> THEN <<>>
    ELSE IF ItemValue(Head(items).name) # 0 /\ ItemValue(Head(items).name) >= 0
         THEN <<Loot(Head(items).x, Head(items).y, Head(items).name)>>
         ELSE FirstWanted(Tail(items))
LinuxLoot(loot, invFull) ==
    IF loot = <<>> THEN <<>>
    ELSE (IF invFull THEN <<Drop(WorstSlot)>> ELSE <<>>)
         \o FirstWanted(SubSeq(loot, 1, Min(2, Len(loot))))

\* player_hp is not None and player_hp <= self.auto_nexus_percent
IsLow(hp, thr) == IsNum(hp) /\ Le(hp, Num(thr, 1))

LinuxDecide(f, hp, thr, md, enemies, bullets, loot, invFull, pl) ==
    IF IsLow(hp, thr) THEN <<Retreat>>
    ELSE LinuxCombat(f, md, enemies)
         \o LinuxDodge(bullets, pl, DefaultDangerRadius)
         \o LinuxLoot(loot, invFull)

\* RotMGbot.should_nexus: the new _low_hp_consecutive_count.  The code counts
\* on without bound; the count is kept up to NexusFrames, which is all that its
\* one reader (count >= 15) can tell apart.
ShouldNexusCount(hp, thr, count) ==
    IF ~IsNum(hp) THEN 0
    ELSE IF Le(hp, Num(thr, 1)) THEN Min(count + 1, NexusFrames)
    ELSE 0

\* RotMGbot.get_dodge_direction(bullets, player_pos): away from the closest
\* bullet; the code divides the vector by its length, which changes neither
\* the signs of its components nor which of them is larger.
WinDodgeVector(bullets, c) ==
    IF bullets = <<>> THEN <<>>
    ELSE LET b == Closest(bullets, c) IN
         IF b.x = c.x /\ b.y = c.y THEN <<>> ELSE <<Move(c.x - b.x, c.y - b.y)>>

\* RotMGbot.run, movement.
WinMovement(f, md, enemies, bullets, lc) ==
    IF md = "Kiting"
    THEN IF enemies = <<>> THEN <<Stop>>
         ELSE LET e == Closest(enemies, Centre(f)) IN
              IF Dist2(e, Centre(f)) < WinCloseRange * WinCloseRange
              THEN IF WinDodgeVector(bullets, Centre(f)) # <<>>
                   THEN WinDodgeVector(bullets, Centre(f))
                   ELSE IF e.x = Centre(f).x /\ e.y = Centre(f).y THEN <<>>
                   ELSE <<Move(Centre(f).x - e.x, Centre(f).y - e.y)>>
              ELSE <<Stop>>
    ELSE IF md = "Circle-Strafe"
    THEN IF enemies = <<>> THEN <<Stop>>
         ELSE <<Move(Cos1000((lc * 10) % 360), Sin1000((lc * 10) % 360))>>
    ELSE <<>>

\* RotMGbot.run, one iteration after perception; count is the new low-HP count.
WinDecide(f, count, md, enemies, bullets, lc, attackDue) ==
    IF count >= NexusFrames THEN <<Retreat>>
    ELSE WinMovement(f, md, enemies, bullets, lc)
         \o (IF attackDue /\ enemies # <<>> THEN <<Attack>> ELSE <<>>)

-----------------------------------------------------------------------------
(* Values of the variables a specification does not use.                   *)

\* pytesseract is not installed, or the text holds no cur/max pair.
NoOcr == [matched |-> FALSE, cur |-> 0, mx |-> 0]
\* No health region configured (no hp_bar / hp_bar_region entry).
AbsentRegion == [present |-> FALSE, x1 |-> 0, y1 |-> 0, x2 |-> 0, y2 |-> 0]
DefaultPlayer == Pos(DefaultPlayerX, DefaultPlayerY)
NoFrame == [h |-> 0, w |-> 0, runs |-> <<>>]
Pending == [impl |-> "none", ocr |-> NoOcr, value |-> None]
NoSnapshot ==
    [hp |-> None, enemies |-> <<>>, bullets |-> <<>>, loot |-> <<>>, invFull |-> FALSE]

KeyIdle == stopCalls = 0 /\ heldOnce = {}
NoImage == [h |-> 0, w |-> 0, ch |-> 0, pat |-> "none"]
NoMatchOut == [applied |-> FALSE, raised |-> FALSE, single |-> <<>>, multi |-> <<>>]
MatchIdle == screen = NoImage /\ templates = <<>> /\ matchOut = NoMatchOut
CalIdle ==
    /\ calFile = "absent" /\ calStore = "empty" /\ lastLoad = "absent"
    /\ calUsed = <<>> /\ calIter = 0
CapIdle ==
    /\ window = "none" /\ handle = "none" /\ capOut = "pending"
    /\ capCalls = 0 /\ lostAtCall = FALSE
NoPipeline == [built |-> FALSE, keys |-> {}, templates |-> <<>>]
PipeIdle == catalog = <<>> /\ pipeOut = NoPipeline /\ ran = <<>>
ExtIdle == KeyIdle /\ MatchIdle /\ CalIdle /\ CapIdle /\ PipeIdle
ExitIdle ==
    stopRequested = FALSE /\ killPressed = FALSE /\ released = FALSE /\ reported = FALSE
ObsIdle ==
    /\ failRun = 0 /\ lastFail = "none" /\ detRan = {} /\ decided = FALSE
    /\ startThr = 0 /\ startMode = ""

HpIdle == frame = NoFrame /\ region = AbsentRegion /\ hpOut = Pending
DodgeIdle == bullet = Pos(0, 0) /\ player = DefaultPlayer /\ dodgeOut = ""
LoopIdle ==
    /\ platform = "linux" /\ mode = "Kiting" /\ threshold = 30
    /\ keybinds = DefaultKeybinds
    /\ pc = "idle" /\ running = FALSE /\ held = {} /\ lowCount = 0 /\ failures = 0
    /\ loopCount = 0 /\ snapshot = NoSnapshot /\ emitted = <<>> /\ raised = FALSE
    /\ nexusTaps = 0 /\ lowRun = 0

-----------------------------------------------------------------------------
(* The health estimators applied alone.                                    *)

\* A configured coordinate may lie up to one frame extent beyond either edge.
XCoords(f) == (0 - f.w)..(2 * f.w)
YCoords(f) == (0 - f.h)..(2 * f.h)

Regions(f) ==
    { [present |-> TRUE, x1 |-> a, y1 |-> b, x2 |-> c, y2 |-> d] :
        a \in XCoords(f), b \in YCoords(f), c \in XCoords(f), d \in YCoords(f) }
    \cup {AbsentRegion}

\* What the OCR may read: nothing, "2/1" and "1/0" (rejected), "0/1", "1/2", "1/1".
OcrReadings ==
    {NoOcr} \cup { [matched |-> TRUE, cur |-> c[1], mx |-> c[2]] :
                   c \in {<<2, 1>>, <<1, 0>>, <<0, 1>>, <<1, 2>>, <<1, 1>>} }

InitHP ==
    /\ frame \in Frames
    /\ region \in Regions(frame)
    /\ hpOut = Pending
    /\ DodgeIdle /\ LoopIdle /\ ExtIdle /\ ExitIdle /\ ObsIdle

\* detection.get_hp_percent(frame) under the default red threshold.
LinuxGetHp ==
    /\ hpOut = Pending
    /\ frame # NoFrame
    /\ hpOut' = [impl |-> "linux", ocr |-> NoOcr,
                 value |-> DetectionGetHpPercent(frame, region, DefaultHpRed)]
    /\ UNCHANGED <<frame, region, dodgeVars, cfgVars, loopVars>>
    /\ UNCHANGED <<extVars, exitVars, obsVars>>

\* RotMGbot.get_hp_percent(frame), the OCR having read o in the region.
WinGetHp ==
    /\ hpOut = Pending
    /\ frame # NoFrame
    /\ \E o \in OcrReadings :
         hpOut' = [impl |-> "win", ocr |-> o, value |-> WinGetHpPercent(frame, region, o)]
    /\ UNCHANGED <<frame, region, dodgeVars, cfgVars, loopVars>>
    /\ UNCHANGED <<extVars, exitVars, obsVars>>

NextHP == LinuxGetHp \/ WinGetHp

SpecHP == InitHP /\ [][NextHP]_vars

-----------------------------------------------------------------------------
(* The health estimators applied to frames with a right sidebar: without a *)
(* configured region RotMGbot.get_hp_percent attempts four regions there.  *)

SidebarW == 400     \* width of the sidebar frames
SidebarH == 130     \* height of the sidebar frames

\* Green in the columns 50..(50 + g - 1), which all four regions cover, and
\* the colour edge in the columns 0..49, which only the fourth region covers.
SidebarFrame(g, edge) ==
    [h |-> SidebarH, w |-> SidebarW,
     runs |-> << Stripe(0, 50, edge), Stripe(50, 50 + g, Green),
                 Stripe(50 + g, SidebarW, Black) >>]
SidebarFrames == { SidebarFrame(g, edge) : g \in {0, 3, 6, 12, 24}, edge \in Palette }
SidebarRegion == [present |-> TRUE, x1 |-> 50, y1 |-> 60, x2 |-> 350, y2 |-> 90]

InitSidebar ==
    /\ frame \in SidebarFrames
    /\ region \in {AbsentRegion, SidebarRegion}
    /\ hpOut = Pending
    /\ DodgeIdle /\ LoopIdle /\ ExtIdle /\ ExitIdle /\ ObsIdle

SpecSidebar == InitSidebar /\ [][NextHP]_vars

-----------------------------------------------------------------------------
(* The dodge helper applied alone.                                         *)

DodgeStep == 50     \* spacing of the bullet positions drawn
MaxGrid == 3        \* bullets lie up to MaxGrid steps from the player on each axis

CalibratedPlayer == Pos(640, 360)

InitDodge ==
    /\ player \in {DefaultPlayer, CalibratedPlayer}
    /\ bullet \in { Pos(player.x + i * DodgeStep, player.y + j * DodgeStep) :
                    i \in (0 - MaxGrid)..MaxGrid, j \in (0 - MaxGrid)..MaxGrid }
    /\ dodgeOut = ""
    /\ HpIdle /\ LoopIdle /\ ExtIdle /\ ExitIdle /\ ObsIdle

\* detection.get_dodge_direction(bullet)
ApplyDodge ==
    /\ dodgeOut = ""
    /\ bullet # Pos(0, 0)
    /\ dodgeOut' = GetDodgeDirection(bullet, player)
    /\ UNCHANGED <<bullet, player, hpVars, cfgVars, loopVars>>
    /\ UNCHANGED <<extVars, exitVars, obsVars>>

NextDodge == ApplyDodge

SpecDodge == InitDodge /\ [][NextDodge]_vars

-----------------------------------------------------------------------------
(* The control loops: RotMGbot.run and RotMGbotLinux.run, the thread that  *)
(* runs them (BotWindow.start_bot / stop_bot) and the keyboard listener.   *)

MaxLoops == 17          \* iterations a run of the retreat specification may make
MaxCombatLoops == 5     \* iterations a run of the combat specification may make
LogEvery == 60          \* RotMGbot.run: the detection summary every 60 loops

\* A full-size frame: the default health bar (columns 50..249) with its first
\* redCols columns red, and the right sidebar (from column 1570) with its first
\* greenCols columns bright green.
BarFrame(redCols, greenCols) ==
    [h |-> 1080, w |-> 1920,
     runs |-> << Stripe(0, 50, Black), Stripe(50, 50 + redCols, Red),
                 Stripe(50 + redCols, 1570, Black),
                 Stripe(1570, 1570 + greenCols, Green),
                 Stripe(1570 + greenCols, 1920, Black) >>]
FullFrame == BarFrame(200, 30)      \* reads 100 in both loops
LowFrame == BarFrame(50, 6)         \* reads 25 in both loops
BlankFrame == BarFrame(0, 0)        \* no red and no green anywhere

\* The detectors an iteration calls, in the order it calls them.
LinuxDetectors == <<"hp", "enemies", "bullets", "loot", "obstacles", "inventory">>
WinDetectors == <<"hp", "enemies", "bullets">>
DetectorsOf(p) == IF p = "linux" THEN LinuxDetectors ELSE WinDetectors
Range(seq) == { seq[i] : i \in 1..Len(seq) }
Before(seq, d) == { seq[i] : i \in { j \in 1..Len(seq) : \A k \in 1..j : seq[k] # d } }

\* What one iteration meets: whether the capture returned a frame, the frame,
\* what the OCR read, the detections in detection order, whether 100 ms have
\* passed since the last attack (RotMGbot.run), and which detector raises
\* (fails; "none" when none does).
World(ok, f, o, enemies, bullets, loot, invFull, attackDue) ==
    [ok |-> ok, frame |-> f, ocr |-> o, enemies |-> enemies, bullets |-> bullets,
     loot |-> loot, invFull |-> invFull, attackDue |-> attackDue, fails |-> "none"]
Failing(w, d) == [w EXCEPT !.fails = d]

CaptureFailed == World(FALSE, NoFrame, NoOcr, <<>>, <<>>, <<>>, FALSE, FALSE)

Snap(hp, enemies, bullets, loot, invFull) ==
    [hp |-> hp, enemies |-> enemies, bullets |-> bullets, loot |-> loot,
     invFull |-> invFull]

\* BotWindow.start_bot: the bot is constructed and its thread started.
Start ==
    /\ pc = "idle"
    /\ pc' = "entry"
    /\ UNCHANGED <<hpVars, dodgeVars, cfgVars, running, held, lowCount, failures,
                   loopCount, snapshot, emitted, raised, nexusTaps, lowRun>>
    /\ UNCHANGED <<extVars, exitVars, obsVars>>

\* run(), up to the loop: self._running = True, the counters initialised.
RunEnter ==
    /\ pc = "entry"
    /\ running' = TRUE
    /\ loopCount' = 0
    /\ failures' = 0
    /\ pc' = "check"
    /\ UNCHANGED <<hpVars, dodgeVars, cfgVars, held, lowCount, snapshot, emitted,
                   raised, nexusTaps, lowRun>>
    /\ UNCHANGED <<extVars, exitVars, obsVars>>

\* while self._running: an iteration begins when the test passes.
LoopTest ==
    /\ pc = "check"
    /\ pc' = IF running THEN "body" ELSE "cleanup"
    /\ startThr' = threshold
    /\ startMode' = mode
    /\ UNCHANGED <<hpVars, dodgeVars, cfgVars, running, held, lowCount, failures,
                   loopCount, snapshot, emitted, raised, nexusTaps, lowRun>>
    /\ UNCHANGED <<extVars, exitVars, failRun, lastFail, detRan, decided>>

\* One iteration of RotMGbotLinux.run.  The six detectors stand in one try
\* whose handler emits "Detection failed" and continues with the next
\* iteration.
LinuxBody(w) ==
    IF ~w.ok
    THEN /\ failures' = failures + 1
         /\ pc' = IF failures + 1 >= MaxFailures THEN "cleanup" ELSE "check"
         /\ emitted' = <<>>
         /\ raised' = FALSE
         /\ lastFail' = "none" /\ detRan' = {} /\ decided' = FALSE
         /\ UNCHANGED <<frame, running, held, lowCount, snapshot, nexusTaps, lowRun>>
    ELSE IF w.fails # "none"
    THEN \E hp \in {IF w.fails = "hp" THEN None
                     ELSE DetectionGetHpPercent(w.frame, region, DefaultHpRed)} :
         /\ failures' = 0
         /\ frame' = w.frame
         /\ emitted' = <<>>
         /\ raised' = FALSE
         /\ lastFail' = w.fails
         /\ detRan' = Before(LinuxDetectors, w.fails)
         /\ decided' = FALSE
         /\ lowRun' = IF w.fails = "hp" THEN lowRun
                       ELSE IF IsLow(hp, threshold) THEN Min(lowRun + 1, NexusFrames)
                       ELSE 0
         /\ pc' = "check"
         /\ UNCHANGED <<running, held, lowCount, snapshot, nexusTaps>>
    ELSE \E hp \in {DetectionGetHpPercent(w.frame, region, DefaultHpRed)} :
         \E calls \in {LinuxDecide(w.frame, hp, threshold, mode, w.enemies, w.bullets,
                                   w.loot, w.invFull, player)} :
         \E r \in {ExecCalls("linux", calls, keybinds, held, <<>>)} :
         LET retreated == calls = <<Retreat>> /\ ~r.raised IN
         /\ failures' = 0
         /\ frame' = w.frame
         /\ snapshot' = Snap(hp, w.enemies, w.bullets, w.loot, w.invFull)
         /\ held' = r.held
         /\ emitted' = r.done
         /\ raised' = r.raised
         /\ running' = IF retreated THEN FALSE ELSE running
         /\ nexusTaps' = IF retreated THEN Min(2, nexusTaps + 1) ELSE nexusTaps
         /\ lowRun' = IF IsLow(hp, threshold) THEN Min(lowRun + 1, NexusFrames) ELSE 0
         /\ pc' = "check"
         /\ lastFail' = "none" /\ detRan' = Range(LinuxDetectors) /\ decided' = TRUE
         /\ UNCHANGED lowCount

\* One iteration of RotMGbot.run.  Each of its three detectors catches what it
\* raises and returns None (get_hp_percent) or [] (find_enemies, find_bullets).
\* The summary logged every LogEvery loops formats the health with
\* "{player_hp:.1f}", which raises on None.
WinBody(w) ==
    IF ~w.ok
    THEN /\ emitted' = <<>>
         /\ raised' = FALSE
         /\ lastFail' = "none" /\ detRan' = {} /\ decided' = FALSE
         /\ UNCHANGED <<frame, running, held, lowCount, failures, snapshot,
                        nexusTaps, lowRun>>
    ELSE \E fail \in {IF w.fails \in Range(WinDetectors) THEN w.fails ELSE "none"} :
         \E hp \in {IF fail = "hp" THEN None
                     ELSE WinGetHpPercent(w.frame, region, w.ocr)} :
         \E enemies \in {IF fail = "enemies" THEN <<>> ELSE w.enemies} :
         \E bullets \in {IF fail = "bullets" THEN <<>> ELSE w.bullets} :
         \E count \in {ShouldNexusCount(hp, threshold, lowCount)} :
         \E calls \in {WinDecide(w.frame, count, mode, enemies, bullets,
                                 loopCount + 1, w.attackDue)} :
         \E r \in {ExecCalls("win", calls, keybinds, held, <<>>)} :
         LET retreated == calls = <<Retreat>> /\ ~r.raised
             logRaises == /\ (loopCount + 1) % LogEvery = 0
                          /\ ~IsNum(hp)
                          /\ calls # <<Retreat>>
                          /\ ~r.raised
         IN
         /\ frame' = w.frame
         /\ snapshot' = Snap(hp, enemies, bullets, <<>>, FALSE)
         /\ lastFail' = fail
         /\ detRan' = Range(WinDetectors) \ {fail}
         /\ decided' = TRUE
         /\ lowCount' = count
         /\ held' = r.held
         /\ emitted' = r.done
         /\ raised' = (r.raised \/ logRaises)
         /\ nexusTaps' = IF retreated THEN Min(2, nexusTaps + 1) ELSE nexusTaps
         /\ lowRun' = IF IsLow(hp, threshold) THEN Min(lowRun + 1, NexusFrames) ELSE 0
         /\ UNCHANGED <<running, failures>>

\* The loop body, meeting one of the worlds of W.
Body(W, maxLoops) ==
    /\ pc = "body"
    /\ loopCount < maxLoops
    /\ loopCount' = loopCount + 1
    /\ \E w \in W :
         /\ IF platform = "linux" THEN LinuxBody(w) ELSE WinBody(w) /\ pc' = "check"
         /\ failRun' = IF w.ok THEN 0 ELSE failRun + 1
    /\ UNCHANGED <<startThr, startMode>>
    /\ UNCHANGED <<region, hpOut, dodgeVars, cfgVars>>
    /\ UNCHANGED <<extVars, exitVars>>

\* The two steps after the loop: the movement keys are released and "Bot
\* stopped." is emitted.  RotMGbot.run releases first; RotMGbotLinux.run emits
\* first.  pc is "cleanup" before the first of them and "cleanup2" before the
\* second.

\* keyboard.release_movement_keys(...) or self.stop_movement().  The latter
\* stands outside every try of RotMGbot.run: if it raises, run() ends there.
CleanupRelease ==
    /\ pc = IF platform = "linux" THEN "cleanup2" ELSE "cleanup"
    /\ released' = TRUE
    /\ \E r \in {IF platform = "linux" THEN Done(KbReleaseMovementKeys(keybinds, held))
                 ELSE RunOps(WinStopMovement(keybinds), held)} :
         /\ held' = r.held
         /\ raised' = r.raised
         /\ pc' = IF r.raised THEN "failed"
                  ELSE IF platform = "linux" THEN "stopped" ELSE "cleanup2"
    /\ UNCHANGED <<hpVars, dodgeVars, cfgVars, running, lowCount, failures, loopCount,
                   snapshot, emitted, nexusTaps, lowRun, stopRequested, killPressed,
                   reported>>
    /\ UNCHANGED <<extVars, obsVars>>

\* self.status_signal.emit("Bot stopped.")
CleanupReport ==
    /\ pc = IF platform = "linux" THEN "cleanup" ELSE "cleanup2"
    /\ reported' = TRUE
    /\ pc' = IF platform = "linux" THEN "cleanup2" ELSE "stopped"
    /\ UNCHANGED <<hpVars, dodgeVars, cfgVars, running, held, lowCount, failures,
                   loopCount, snapshot, emitted, raised, nexusTaps, lowRun,
                   stopRequested, killPressed, released>>
    /\ UNCHANGED <<extVars, obsVars>>

\* BotWindow.stop_bot: bot.stop(), bot._running = False, thread.quit().  at
\* holds the points of the run at which a specification lets the user ask:
\* "entry" is the thread started and run() not yet at its first statement.
WhileLooping == {"check", "body"}
OnceStarted == {"entry", "check", "body"}
StopRequest(at) ==
    /\ pc \in at
    /\ ~stopRequested
    /\ running \/ pc = "entry"
    /\ running' = FALSE
    /\ stopRequested' = TRUE
    /\ UNCHANGED <<hpVars, dodgeVars, cfgVars, pc, held, lowCount, failures, loopCount,
                   snapshot, emitted, raised, nexusTaps, lowRun, killPressed, released,
                   reported>>
    /\ UNCHANGED <<extVars, obsVars>>

\* BotWindow.stop_bot, after thread.wait(3000) has timed out: run() has not
\* returned within three seconds of the request, and the thread is terminated
\* where it stands.
Terminate ==
    /\ stopRequested
    /\ pc \in {"check", "body", "cleanup", "cleanup2"}
    /\ pc' = "killed"
    /\ UNCHANGED <<hpVars, dodgeVars, cfgVars, running, held, lowCount, failures,
                   loopCount, snapshot, emitted, raised, nexusTaps, lowRun, exitVars>>
    /\ UNCHANGED <<extVars, obsVars>>

\* What the user does at the keyboard: a key goes down, with Ctrl held or not.
KeyDown(ctrl, key) == [ctrl |-> ctrl, key |-> key]
KeyEvents ==
    { KeyDown(c, k) : c \in BOOLEAN, k \in {"q", "Q", "a"} }
        \cup {KeyDown(FALSE, "ctrl"), KeyDown(FALSE, "esc")}
PlainKeys == {KeyDown(FALSE, "a")}
KillCombination(e) == e.ctrl /\ e.key \in {"q", "Q"}

\* The objects keyboard.Listener hands to on_press.  A character key comes as
\* a KeyCode, whose attributes are vk, char and is_dead; a special key comes
\* as a member of the enumeration Key, which has no char.  With Ctrl held the
\* char of a letter is, by backend, the letter, its control character or None.
NoChar == "<None>"
NoAttr == "<no attribute>"
ControlChar == "<control>"
KeyCode(c) == [cls |-> "KeyCode", char |-> c, name |-> ""]
KeyMember(n) == [cls |-> "Key", char |-> NoAttr, name |-> n]
Delivered(e) ==
    CASE e.key = "ctrl" -> {KeyMember("ctrl_l")}
      [] e.key = "esc" -> {KeyMember("esc")}
      [] e.ctrl -> {KeyCode(e.key), KeyCode(ControlChar), KeyCode(NoChar)}
      [] OTHER -> {KeyCode(e.key)}

\* str(key) and key.char.lower()
KeyStr(key) ==
    CASE key.cls = "Key" -> IF key.name = "esc" THEN "Key.esc" ELSE "Key.ctrl_l"
      [] key.char = NoChar -> "None"
      [] key.char = ControlChar -> "'\\x11'"
      [] key.char = "a" -> "'a'"
      [] key.char = "Q" -> "'Q'"
      [] OTHER -> "'q'"
Lower(c) == IF c = "Q" THEN "q" ELSE c

\* on_user_key(key): k is key.char.lower(), or str(key) when that raises
\* AttributeError (no char, or a char of None); the bot is stopped when
\* hasattr(key, 'ctrl') and key.ctrl and k == 'q'.  A KeyCode has no
\* attribute ctrl; whether a member of Key has one (the member Key.ctrl,
\* reached through another member) depends on the Python version.
UserKeyText(key) ==
    IF key.char \in {NoAttr, NoChar} THEN KeyStr(key) ELSE Lower(key.char)
HasAttrCtrl(key, memberAccess) == key.cls = "Key" /\ memberAccess
StopsOnKey(key, memberAccess) == HasAttrCtrl(key, memberAccess) /\ UserKeyText(key) = "q"

OnUserKey(events) ==
    /\ pc \in {"check", "body"}
    /\ running
    /\ \E e \in events : \E key \in Delivered(e) : \E memberAccess \in BOOLEAN :
         /\ running' = IF StopsOnKey(key, memberAccess) THEN FALSE ELSE running
         /\ killPressed' = (killPressed \/ KillCombination(e))
    /\ UNCHANGED <<hpVars, dodgeVars, cfgVars, pc, held, lowCount, failures, loopCount,
                   snapshot, emitted, raised, nexusTaps, lowRun>>
    /\ UNCHANGED <<stopRequested, released, reported>>
    /\ UNCHANGED <<extVars, obsVars>>

InitLoopAt(kbs, modes, regions) ==
    /\ frame = NoFrame /\ region \in regions /\ hpOut = Pending
    /\ DodgeIdle
    /\ platform \in {"win", "linux"}
    /\ mode \in modes
    /\ threshold = 30
    /\ keybinds \in kbs
    /\ pc = "idle" /\ running = FALSE /\ held = {} /\ lowCount = 0 /\ failures = 0
    /\ loopCount = 0 /\ snapshot = NoSnapshot /\ emitted = <<>> /\ raised = FALSE
    /\ nexusTaps = 0 /\ lowRun = 0
    /\ ExtIdle /\ ExitIdle /\ ObsIdle

InitLoop(kbs, modes) == InitLoopAt(kbs, modes, {AbsentRegion})

\* Enemy and bullet positions, as offsets from the centre of a 1920 x 1080 frame.
At(dx, dy) == Pos(960 + dx, 540 + dy)

\* The worlds of the retreat specification: the health reading varies, a capture
\* may fail, and an enemy may stand close by.
RetreatWorlds ==
    { World(TRUE, f, NoOcr, e, <<>>, <<>>, FALSE, TRUE) :
        f \in {FullFrame, LowFrame, BlankFrame}, e \in {<<>>, <<At(-60, 0)>>} }
    \cup {CaptureFailed}

Init == InitLoop({DefaultKeybinds}, {"Kiting"})

Next ==
    \/ Start
    \/ RunEnter
    \/ LoopTest
    \/ Body(RetreatWorlds, MaxLoops)
    \/ CleanupRelease
    \/ CleanupReport
    \/ Terminate
    \/ StopRequest(WhileLooping)
    \/ OnUserKey(KeyEvents)

Spec == Init /\ [][Next]_vars

-----------------------------------------------------------------------------
(* Combat: health stays high; enemies, bullets and loot vary, and so do    *)
(* the movement mode and the key bindings.                                 *)

\* A map without some move_* entries, and one whose move_left entry is null.
PartialKeybinds ==
    [a \in BindActions |->
        IF a \in {"move_down", "move_right"} THEN Missing ELSE DefaultKeybinds[a]]
NullKeybinds ==
    [a \in BindActions |-> IF a = "move_left" THEN Null ELSE DefaultKeybinds[a]]

Item(x, y, name) == [x |-> x, y |-> y, name |-> name]

CombatEnemies ==
    { <<>>, <<At(100, 0)>>, <<At(-60, 0)>>, <<At(0, -60)>>, <<At(0, 150)>>,
      <<At(400, 0), At(0, 50)>> }
CombatBullets == { <<>>, <<At(-100, 0)>>, <<At(0, 30)>>, <<Pos(100, 100)>> }
CombatLoot ==
    { <<>>, <<Item(700, 500, "Potion of Life")>>, <<Item(700, 500, "Wooden Sword")>>,
      <<Item(500, 400, "Bag"), Item(600, 400, "Crate"), Item(700, 500, "Ancient Sword")>>,
      <<Item(500, 400, "Bag"), Item(700, 500, "Tincture of Mana")>> }

\* One world in which a detector raises, for each detector.
FailWorlds ==
    { Failing(World(TRUE, FullFrame, NoOcr, <<At(-60, 0)>>, <<At(0, 30)>>, <<>>,
                    FALSE, TRUE), d) : d \in Range(LinuxDetectors) }

CombatWorlds ==
    { World(TRUE, FullFrame, NoOcr, e, b, <<>>, FALSE, TRUE) :
        e \in CombatEnemies, b \in CombatBullets }
    \cup { World(TRUE, FullFrame, NoOcr, <<>>, <<>>, l, full, FALSE) :
        l \in CombatLoot, full \in BOOLEAN }
    \cup FailWorlds
    \cup {World(TRUE, FullFrame, NoOcr, <<At(0, -60), At(-60, 0)>>, <<>>, <<>>, FALSE, TRUE)}
    \cup {World(TRUE, FullFrame, NoOcr, <<>>,
                <<At(-100, 0), At(100, 0), At(0, -100), At(0, 30)>>, <<>>, FALSE, TRUE)}

InitCombat ==
    InitLoop({DefaultKeybinds, EmptyKeybinds, PartialKeybinds, NullKeybinds},
             {"Kiting", "Circle-Strafe"})

NextCombat ==
    \/ Start
    \/ RunEnter
    \/ LoopTest
    \/ Body(CombatWorlds, MaxCombatLoops)
    \/ CleanupRelease
    \/ CleanupReport
    \/ Terminate
    \/ StopRequest(WhileLooping)
    \/ OnUserKey(PlainKeys)

SpecCombat == InitCombat /\ [][NextCombat]_vars

-----------------------------------------------------------------------------
(* Long runs: the health is unknown (no red and no green in the frame) or  *)
(* full, an enemy may stand close by, and the loop runs long enough to     *)
(* reach the iterations on which it logs its detection summary.            *)

MaxLogLoops == 60       \* iterations a run of this specification may make

LogWorlds ==
    { World(TRUE, f, NoOcr, e, <<>>, <<>>, FALSE, TRUE) :
        f \in {BlankFrame, FullFrame}, e \in {<<>>, <<At(-60, 0)>>} }

\* A calibrated health bar that lies to the right of a 1920 x 1080 frame.
OffFrameRegion == [present |-> TRUE, x1 |-> 2000, y1 |-> 20, x2 |-> 2200, y2 |-> 40]

InitLog == InitLoopAt({DefaultKeybinds}, {"Kiting"}, {AbsentRegion, OffFrameRegion})

NextLog ==
    \/ Start
    \/ RunEnter
    \/ LoopTest
    \/ Body(LogWorlds, MaxLogLoops)
    \/ CleanupRelease
    \/ CleanupReport
    \/ Terminate
    \/ StopRequest(WhileLooping)
    \/ OnUserKey(PlainKeys)

SpecLog == InitLog /\ [][NextLog]_vars

-----------------------------------------------------------------------------
(* Settings changed while the loop runs: BotWindow.update_threshold and    *)
(* BotWindow.update_movement_mode write the bot's attributes from the GUI  *)
(* thread.                                                                 *)

MaxUpdateLoops == 3     \* iterations a run of this specification may make

ThresholdValues == {20, 30}
MovementModes == {"Kiting", "Circle-Strafe"}

\* update_threshold(value): self.bot.auto_nexus_percent = value
UpdateThreshold ==
    /\ pc \in {"entry", "check", "body"}
    /\ \E v \in ThresholdValues \ {threshold} : threshold' = v
    /\ UNCHANGED <<hpVars, dodgeVars, platform, mode, keybinds, loopVars>>
    /\ UNCHANGED <<extVars, exitVars, obsVars>>

\* update_movement_mode(index): self.bot.movement_mode = mode
UpdateMovementMode ==
    /\ pc \in {"entry", "check", "body"}
    /\ \E m \in MovementModes \ {mode} : mode' = m
    /\ UNCHANGED <<hpVars, dodgeVars, platform, threshold, keybinds, loopVars>>
    /\ UNCHANGED <<extVars, exitVars, obsVars>>

\* The health reads 25 (between the two thresholds) or 100, and an enemy
\* stands close by or none is seen.
UpdateWorlds ==
    { World(TRUE, f, NoOcr, e, <<>>, <<>>, FALSE, TRUE) :
        f \in {LowFrame, FullFrame}, e \in {<<>>, <<At(-60, 0)>>} }

InitUpdate == InitLoop({DefaultKeybinds}, MovementModes)

NextUpdate ==
    \/ Start
    \/ RunEnter
    \/ LoopTest
    \/ Body(UpdateWorlds, MaxUpdateLoops)
    \/ CleanupRelease
    \/ CleanupReport
    \/ Terminate
    \/ StopRequest(WhileLooping)
    \/ OnUserKey(PlainKeys)
    \/ UpdateThreshold
    \/ UpdateMovementMode

SpecUpdate == InitUpdate /\ [][NextUpdate]_vars

-----------------------------------------------------------------------------
(* Features switched off in the key bindings: attack or nexus bound to     *)
(* null, drop_item bound to null as in DEFAULT_SETTINGS.                   *)

MaxBindLoops == 3       \* iterations a run of this specification may make

NoAttackKeybinds == [DefaultKeybinds EXCEPT !["attack"] = Null]
NoNexusKeybinds == [DefaultKeybinds EXCEPT !["nexus"] = Null]

BindWorlds ==
    RetreatWorlds
        \cup {World(TRUE, FullFrame, NoOcr, <<>>, <<>>,
                    <<Item(700, 500, "Potion of Life")>>, TRUE, TRUE)}

InitBind == InitLoop({DefaultKeybinds, NoAttackKeybinds, NoNexusKeybinds}, {"Kiting"})

NextBind ==
    \/ Start
    \/ RunEnter
    \/ LoopTest
    \/ Body(BindWorlds, MaxBindLoops)
    \/ CleanupRelease
    \/ CleanupReport
    \/ Terminate
    \/ StopRequest(WhileLooping)
    \/ OnUserKey(PlainKeys)

SpecBind == InitBind /\ [][NextBind]_vars

-----------------------------------------------------------------------------
(* A run that is asked to stop, once, at any point after its thread was    *)
(* started.  The thread keeps being scheduled: each step of run() that is  *)
(* enabled is eventually taken.  Nothing in these worlds depends on        *)
(* loop_count, which the model starts again at MaxLiveLoops so that the    *)
(* loop can go on for ever.  The three seconds stop_bot waits are taken to *)
(* suffice for a loop that honours the request, and Terminate is left out. *)
(* The runs checked for progress are those of RotMGbotLinux.run;           *)
(* RotMGbot.run enters its loop in the same way, and SpecStart has both.   *)

MaxLiveLoops == 3       \* loop_count is started again when it reaches this

LiveWorlds ==
    { World(TRUE, FullFrame, NoOcr, e, <<>>, <<>>, FALSE, TRUE) :
        e \in {<<>>, <<At(-60, 0)>>, <<At(0, 150)>>, <<At(0, -60)>>} }

CountAgain(maxLoops) ==
    /\ pc = "body"
    /\ loopCount = maxLoops
    /\ loopCount' = 0
    /\ UNCHANGED <<hpVars, dodgeVars, cfgVars, pc, running, held, lowCount, failures,
                   snapshot, emitted, raised, nexusTaps, lowRun>>
    /\ UNCHANGED <<extVars, exitVars, obsVars>>

NextLive ==
    \/ Start
    \/ RunEnter
    \/ LoopTest
    \/ Body(LiveWorlds, MaxLiveLoops)
    \/ CountAgain(MaxLiveLoops)
    \/ CleanupRelease
    \/ CleanupReport
    \/ StopRequest(OnceStarted)
    \/ OnUserKey(PlainKeys)

ThreadRuns ==
    /\ WF_vars(RunEnter)
    /\ WF_vars(LoopTest)
    /\ WF_vars(Body(LiveWorlds, MaxLiveLoops))
    /\ WF_vars(CountAgain(MaxLiveLoops))
    /\ WF_vars(CleanupRelease)
    /\ WF_vars(CleanupReport)

InitLive == Init /\ platform = "linux"

SpecLive == InitLive /\ [][NextLive]_vars /\ ThreadRuns

SpecStart == Init /\ [][NextLive]_vars

-----------------------------------------------------------------------------
(* StopMovement applied alone, from any set of held keys.                  *)

MaxStopCalls == 2       \* calls of StopMovement made in a row

\* The keys a movement call can have pressed under some map drawn here.
MoveKeys == {"w", "a", "s", "d"}

InitKeys ==
    /\ platform \in {"win", "linux"}
    /\ keybinds \in {DefaultKeybinds, EmptyKeybinds, PartialKeybinds, NullKeybinds}
    /\ held \in SUBSET MoveKeys
    /\ stopCalls = 0 /\ heldOnce = {}
    /\ mode = "Kiting" /\ threshold = 30
    /\ pc = "idle" /\ running = FALSE /\ lowCount = 0 /\ failures = 0
    /\ loopCount = 0 /\ snapshot = NoSnapshot /\ emitted = <<>> /\ raised = FALSE
    /\ nexusTaps = 0 /\ lowRun = 0
    /\ HpIdle /\ DodgeIdle /\ ExitIdle /\ ObsIdle /\ MatchIdle /\ CalIdle /\ CapIdle /\ PipeIdle

\* keyboard.release_movement_keys(...) or RotMGbot.stop_movement(), once more.
StopMovementCall ==
    /\ stopCalls < MaxStopCalls
    /\ stopCalls' = stopCalls + 1
    /\ \E r \in {IF platform = "linux" THEN Done(KbReleaseMovementKeys(keybinds, held))
                 ELSE RunOps(WinStopMovement(keybinds), held)} :
         /\ held' = r.held
         /\ raised' = r.raised
         /\ heldOnce' = IF stopCalls = 0 THEN r.held ELSE heldOnce
    /\ UNCHANGED <<hpVars, dodgeVars, cfgVars, pc, running, lowCount, failures,
                   loopCount, snapshot, emitted, nexusTaps, lowRun, exitVars>>
    /\ UNCHANGED <<obsVars, matchVars, calVars, capVars, pipeVars>>

NextKeys == StopMovementCall

SpecKeys == InitKeys /\ [][NextKeys]_vars

-----------------------------------------------------------------------------
(* Template matching applied alone: AssetLoader.create_template_matcher    *)
(* and AssetLoader.create_multi_template_matcher.                          *)

MaxImg == 2         \* images are up to MaxImg pixels high and wide
Lit == 3            \* the grey level of a bright pixel; a dark one is 0
ThresholdNum == 4   \* threshold = 0.8
ThresholdDen == 5

\* An image of h rows and w columns with ch channels (1: a grey array, 3: a
\* BGR array of grey pixels), filled by a pattern: all dark, bright columns
\* alternating with dark ones, or a checkerboard.
Image(h, w, ch, pat) == [h |-> h, w |-> w, ch |-> ch, pat |-> pat]
Patterns == {"dark", "cols", "check"}
Level(img, x, y) ==
    CASE img.pat = "cols" -> IF x % 2 = 0 THEN Lit ELSE 0
      [] img.pat = "check" -> IF (x + y) % 2 = 0 THEN Lit ELSE 0
      [] OTHER -> 0
PixelAt(img, x, y) ==
    IF img.ch = 3 THEN <<Level(img, x, y), Level(img, x, y), Level(img, x, y)>>
    ELSE Level(img, x, y)

\* cv2.cvtColor(image, cv2.COLOR_BGR2GRAY) on one 8-bit pixel.
Gray3(p) == (p[1] * 1868 + p[2] * 9617 + p[3] * 4899 + 8192) \div 16384
\* The grey image the matcher works on: converted when the array has three
\* dimensions, taken as it is otherwise.
GrayAt(img, x, y) ==
    IF img.ch = 3 THEN Gray3(PixelAt(img, x, y)) ELSE PixelAt(img, x, y)

RECURSIVE SeqSum(_)
SeqSum(q) == IF q = <<>> THEN 0 ELSE Head(q) + SeqSum(Tail(q))
Times(a, b) == [k \in 1..Len(a) |-> a[k] * b[k]]

\* The grey levels of template t, and of the window of screen s under it when
\* its corner lies at (ox, oy), row by row.
TemplateLevels(t) ==
    [k \in 1..(t.h * t.w) |-> GrayAt(t, (k - 1) % t.w, (k - 1) \div t.w)]
WindowLevels(s, t, ox, oy) ==
    [k \in 1..(t.h * t.w) |-> GrayAt(s, ox + ((k - 1) % t.w), oy + ((k - 1) \div t.w))]

\* result >= threshold for TM_CCOEFF_NORMED: the correlation coefficient of
\* template and window, which OpenCV gives as 0 when either is flat.
ScoreAtLeast(tv, wv, num, den) ==
    LET n == Len(tv)
        st == SeqSum(tv)
        sw == SeqSum(wv)
        cov == n * SeqSum(Times(tv, wv)) - st * sw
        vt == n * SeqSum(Times(tv, tv)) - st * st
        vw == n * SeqSum(Times(wv, wv)) - sw * sw
    IN IF vt = 0 \/ vw = 0 THEN FALSE
       ELSE cov > 0 /\ den * den * cov * cov >= num * num * vt * vw

MatchResult(err, matches) == [raised |-> err, matches |-> matches]

\* cv2.matchTemplate followed by np.where(result >= threshold): it raises
\* cv2.error when the template is larger than the image; otherwise the
\* matches (x, y, w, h) come in row order.
CvMatchTemplate(s, t, num, den) ==
    IF t.h > s.h \/ t.w > s.w THEN MatchResult(TRUE, <<>>)
    ELSE LET nx == s.w - t.w + 1
             ny == s.h - t.h + 1
             tv == TemplateLevels(t)
             at == [k \in 1..(nx * ny) |-> <<(k - 1) % nx, (k - 1) \div nx, t.w, t.h>>]
             Hit(m) == ScoreAtLeast(tv, WindowLevels(s, t, m[1], m[2]), num, den)
         IN MatchResult(FALSE, SelectSeq(at, Hit))

\* A matcher without the size test and without the handler.
MatchTemplateUnguarded(t, s, num, den) == CvMatchTemplate(s, t, num, den)

\* match_template(screen_image), as create_template_matcher builds it: the
\* size test, then cv2.matchTemplate inside try / except cv2.error.
MatchTemplate(t, s, num, den) ==
    IF t.h > s.h \/ t.w > s.w THEN MatchResult(FALSE, <<>>)
    ELSE LET r == CvMatchTemplate(s, t, num, den) IN
         IF r.raised THEN MatchResult(FALSE, <<>>) ELSE r

\* match_multiple_templates(screen_image): every template's matcher is
\* applied; the names with at least one match are the keys of the result.
MatchMultiple(tpls, s, num, den) ==
    LET r == [n \in DOMAIN tpls |-> MatchTemplate(tpls[n], s, num, den)] IN
    IF \E n \in DOMAIN tpls : r[n].raised
    THEN [raised |-> TRUE, results |-> <<>>]
    ELSE [raised |-> FALSE,
          results |-> [n \in {m \in DOMAIN tpls : r[m].matches # <<>>} |-> r[n].matches]]

TemplateNames == {"a", "b"}
Images(chs) ==
    { Image(h, w, ch, pat) : h \in 1..MaxImg, w \in 1..MaxImg, ch \in chs, pat \in Patterns }

\* Screens are grey or BGR arrays; templates are what cv2.imread loads.
InitMatch ==
    /\ screen \in Images({1, 3})
    /\ templates \in [TemplateNames -> Images({3})]
    /\ matchOut = NoMatchOut
    /\ HpIdle /\ DodgeIdle /\ LoopIdle /\ KeyIdle /\ ExitIdle /\ ObsIdle /\ CalIdle
    /\ CapIdle /\ PipeIdle

\* Each template's matcher and the batch matcher are applied to the screen.
ApplyMatchers ==
    /\ ~matchOut.applied
    /\ screen # NoImage
    /\ \E one \in {[n \in DOMAIN templates |->
                       MatchTemplate(templates[n], screen, ThresholdNum, ThresholdDen)]} :
       \E all \in {MatchMultiple(templates, screen, ThresholdNum, ThresholdDen)} :
         matchOut' = [applied |-> TRUE,
                      raised |-> (all.raised \/ \E n \in DOMAIN templates : one[n].raised),
                      single |-> [n \in DOMAIN templates |-> one[n].matches],
                      multi |-> all.results]
    /\ UNCHANGED <<screen, templates, keyVars, calVars, capVars, pipeVars>>
    /\ UNCHANGED <<hpVars, dodgeVars, cfgVars, loopVars, exitVars, obsVars>>

NextMatch == ApplyMatchers

SpecMatch == InitMatch /\ [][NextMatch]_vars

-----------------------------------------------------------------------------
(* The calibration store: detection.calibration_data, load_calibration and *)
(* reload_calibration, the file they read, and the lookups the detection   *)
(* functions make during one iteration of RotMGbotLinux.run.               *)

MaxCalIters == 2    \* iterations a run of this specification may complete

\* The lookups of one iteration, in the order the loop makes them:
\* get_hp_percent (hp_bar, thresholds.hp_red), inventory_is_full
\* (inventory_region), is_bullet_dangerous (player_position, danger_radius).
CalReads == <<"hp_bar", "hp_red", "inventory_region", "player_position",
              "danger_radius">>

DefaultInventoryRegion == [x1 |-> 1600, y1 |-> 400, x2 |-> 1900, y2 |-> 800]

\* The default each lookup passes to .get().
CalDefault(field) ==
    CASE field = "hp_bar" -> DefaultHpBar
      [] field = "hp_red" -> DefaultHpRed
      [] field = "inventory_region" -> DefaultInventoryRegion
      [] field = "player_position" -> DefaultPlayer
      [] field = "danger_radius" -> DefaultDangerRadius

\* What the store may be bound to: {} ("empty"), or what json.load gave for
\* one of two versions of the file.  Version v1 sets every value; version v2
\* sets the health bar and the danger radius only.
Contents(store) ==
    CASE store = "v1" ->
           [hp_bar |-> [x1 |-> 100, y1 |-> 880, x2 |-> 300, y2 |-> 900],
            hp_red |-> 120,
            inventory_region |-> [x1 |-> 1500, y1 |-> 300, x2 |-> 1800, y2 |-> 700],
            player_position |-> CalibratedPlayer,
            danger_radius |-> 80]
      [] store = "v2" ->
           [hp_bar |-> [x1 |-> 60, y1 |-> 910, x2 |-> 260, y2 |-> 930],
            danger_radius |-> 30]
      [] OTHER -> [f \in {} |-> 0]

\* calibration_data.get(field, default)
CalGet(store, field) ==
    IF field \in DOMAIN Contents(store) THEN Contents(store)[field]
    ELSE CalDefault(field)

FileStates == {"absent", "corrupt", "v1", "v2"}

\* load_calibration(): the store after it has run, the store having been
\* bound to `store` and the file being `file`.
LoadCalibration(store, file) ==
    IF file = "absent" THEN store
    ELSE IF file = "corrupt" THEN "empty"
    ELSE file

\* The module has been imported: calibration_data = {} and one load.
InitCalib ==
    /\ calFile \in FileStates
    /\ calStore = LoadCalibration("empty", calFile)
    /\ lastLoad = calFile
    /\ calUsed = <<>>
    /\ calIter = 0
    /\ HpIdle /\ DodgeIdle /\ LoopIdle /\ KeyIdle /\ MatchIdle /\ ExitIdle /\ ObsIdle
    /\ CapIdle /\ PipeIdle

\* A calibration tool writes the file, or the file is removed or damaged.
FileChanges ==
    /\ \E f \in FileStates \ {calFile} : calFile' = f
    /\ UNCHANGED <<calStore, lastLoad, calUsed, calIter>>
    /\ UNCHANGED <<hpVars, dodgeVars, cfgVars, loopVars, keyVars, matchVars, capVars, pipeVars,
                   exitVars, obsVars>>

\* reload_calibration(), from whichever thread calls it.
ReloadCalibration ==
    /\ calStore' = LoadCalibration(calStore, calFile)
    /\ lastLoad' = calFile
    /\ UNCHANGED <<calFile, calUsed, calIter>>
    /\ UNCHANGED <<hpVars, dodgeVars, cfgVars, loopVars, keyVars, matchVars, capVars, pipeVars,
                   exitVars, obsVars>>

\* The iteration in flight makes its next lookup in the global
\* calibration_data, as it is bound at that moment.
ReadCalibration ==
    /\ calIter < MaxCalIters
    /\ Len(calUsed) < Len(CalReads)
    /\ calUsed' = Append(calUsed,
                         [field |-> CalReads[Len(calUsed) + 1],
                          from |-> calStore,
                          value |-> CalGet(calStore, CalReads[Len(calUsed) + 1])])
    /\ UNCHANGED <<calFile, calStore, lastLoad, calIter>>
    /\ UNCHANGED <<hpVars, dodgeVars, cfgVars, loopVars, keyVars, matchVars, capVars, pipeVars,
                   exitVars, obsVars>>

\* The iteration ends and the next one begins.
NextIteration ==
    /\ Len(calUsed) = Len(CalReads)
    /\ calUsed' = <<>>
    /\ calIter' = calIter + 1
    /\ UNCHANGED <<calFile, calStore, lastLoad>>
    /\ UNCHANGED <<hpVars, dodgeVars, cfgVars, loopVars, keyVars, matchVars, capVars, pipeVars,
                   exitVars, obsVars>>

NextCalib == FileChanges \/ ReloadCalibration \/ ReadCalibration \/ NextIteration

SpecCalib == InitCalib /\ [][NextCalib]_vars

-----------------------------------------------------------------------------
(* Screen capture applied alone: RotMGbot.capture_rotmg_window and         *)
(* RotMGbotLinux.capture_game_screen, while the game window closes and     *)
(* opens.  window is "none", "old" (the window that existed when the bot   *)
(* was constructed) or "new" (one opened since); handle likewise.          *)

MaxCaptures == 5        \* capture calls made in a run of this specification

\* The constructor has run find_rotmg_window(): the bot tracks the window that
\* existed then, if one did.
InitCapture ==
    /\ platform \in {"win", "linux"}
    /\ window \in {"none", "old"}
    /\ handle = window
    /\ capOut = "pending" /\ capCalls = 0 /\ lostAtCall = FALSE
    /\ mode = "Kiting" /\ threshold = 30 /\ keybinds = DefaultKeybinds
    /\ pc = "idle" /\ running = FALSE /\ held = {} /\ lowCount = 0 /\ failures = 0
    /\ loopCount = 0 /\ snapshot = NoSnapshot /\ emitted = <<>> /\ raised = FALSE
    /\ nexusTaps = 0 /\ lowRun = 0
    /\ HpIdle /\ DodgeIdle /\ ExitIdle /\ ObsIdle /\ KeyIdle /\ MatchIdle /\ CalIdle
    /\ PipeIdle

\* The user closes the game, or starts it again.
WindowCloses ==
    /\ window # "none"
    /\ window' = "none"
    /\ UNCHANGED <<handle, capOut, capCalls, lostAtCall>>
    /\ UNCHANGED <<hpVars, dodgeVars, cfgVars, loopVars, keyVars, matchVars, calVars,
                   pipeVars,
                   exitVars, obsVars>>
WindowOpens ==
    /\ window = "none"
    /\ window' = "new"
    /\ UNCHANGED <<handle, capOut, capCalls, lostAtCall>>
    /\ UNCHANGED <<hpVars, dodgeVars, cfgVars, loopVars, keyVars, matchVars, calVars,
                   pipeVars,
                   exitVars, obsVars>>

\* RotMGbot.capture_rotmg_window(): what it returns ("window": a frame of the
\* window's rectangle, "screen": a frame of the primary monitor, "None") and
\* the handle it leaves.  With a handle that IsWindow rejects it searches
\* again and returns None when it finds no window; closing says that the
\* window goes away after IsWindow has accepted the handle, so that
\* GetWindowRect raises.
CaptureRotmgWindow(h, w, closing) ==
    IF h = "none" THEN [out |-> "screen", handle |-> h]
    ELSE IF h # w
         THEN [out |-> IF w = "none" THEN "None" ELSE "window", handle |-> w]
    ELSE IF closing THEN [out |-> "None", handle |-> h]
    ELSE [out |-> "window", handle |-> h]

\* RotMGbotLinux.capture_game_screen(): game_region was set by the constructor
\* from the window found then and is not looked up again; the region is
\* grabbed, and the primary monitor when that grab raises.
CaptureGameScreen(h, grabOk) ==
    IF h # "none" /\ grabOk THEN [out |-> "window", handle |-> h]
    ELSE [out |-> "screen", handle |-> h]

Capture ==
    /\ capCalls < MaxCaptures
    /\ capCalls' = capCalls + 1
    /\ lostAtCall' = (handle # "none" /\ handle # window)
    /\ \E flag \in BOOLEAN :
         \E closing \in {flag /\ platform = "win" /\ handle = window /\ handle # "none"} :
         \E r \in {IF platform = "win" THEN CaptureRotmgWindow(handle, window, closing)
                    ELSE CaptureGameScreen(handle, flag)} :
           /\ capOut' = r.out
           /\ handle' = r.handle
           /\ window' = IF closing THEN "none" ELSE window
    /\ UNCHANGED <<hpVars, dodgeVars, cfgVars, loopVars, keyVars, matchVars, calVars,
                   pipeVars,
                   exitVars, obsVars>>

NextCapture == WindowCloses \/ WindowOpens \/ Capture

SpecCapture == InitCapture /\ [][NextCapture]_vars

-----------------------------------------------------------------------------
(* The detection pipeline: AssetLoader.create_detection_pipeline, run when *)
(* vision/detection.py is imported, and the matchers the detectors look    *)
(* up.  The catalog (asset_index) gives, for each of its categories, the   *)
(* names of its image assets; a template is a category and a name.         *)

IndexCategories == {"enemies", "projectiles", "terrain", "ui", "effects"}
AssetNames == {"lava", "floor"}
PipelineKeys == {"enemies", "projectiles", "dangerous_terrain", "safe_terrain", "ui_elements"}
Detectors == {"find_enemies", "find_bullets", "find_loot", "find_obstacles"}

\* load_asset_images(category)
LoadAssetImages(c, category) == c[category]

\* get_damage_indicators(): the terrain names holding a danger keyword, and
\* every projectile name.  get_navigation_assets(): the terrain names holding
\* a safe keyword.
IsDangerName(n) == n = "lava"
IsSafeName(n) == n = "floor"
GetDamageIndicators(c) ==
    { n \in LoadAssetImages(c, "terrain") : IsDangerName(n) }
        \cup LoadAssetImages(c, "projectiles")
GetNavigationAssets(c) == { n \in LoadAssetImages(c, "terrain") : IsSafeName(n) }

PipelineOf(c) ==
    [k \in PipelineKeys |->
        CASE k = "enemies" -> LoadAssetImages(c, "enemies")
          [] k = "projectiles" -> LoadAssetImages(c, "projectiles")
          [] k = "dangerous_terrain" -> GetDamageIndicators(c)
          [] k = "safe_terrain" -> GetNavigationAssets(c)
          [] OTHER -> LoadAssetImages(c, "ui")]

\* The category argument create_detection_pipeline passes for a pipeline key.
MatcherCategory(k) ==
    IF k = "enemies" THEN "enemies" ELSE IF k = "projectiles" THEN "projectiles"
    ELSE "terrain"

\* create_multi_template_matcher(names, category): a template for each name
\* that find_asset_by_name(name, category) finds.
CreateMultiTemplateMatcher(c, names, category) ==
    { <<category, n>> : n \in names \cap c[category] }

\* create_detection_pipeline(): a matcher for every key whose images are not
\* empty.
CreateDetectionPipeline(c) ==
    [built |-> TRUE,
     keys |-> { k \in PipelineKeys : PipelineOf(c)[k] # {} },
     templates |-> [k \in PipelineKeys |->
                      CreateMultiTemplateMatcher(c, PipelineOf(c)[k], MatcherCategory(k))]]

\* The matcher keys a detector looks up, and whether it tests "in matchers"
\* before it does.
LooksUp(d) ==
    CASE d = "find_enemies" -> {"enemies"}
      [] d = "find_bullets" -> {"projectiles"}
      [] d = "find_loot" -> {"ui_elements", "effects"}
      [] OTHER -> {"terrain"}
TestsKey(d) == d \in {"find_loot", "find_obstacles"}

\* One detector on a frame: the templates of the matchers it runs; a key that
\* is looked up without the test and is not there raises KeyError.
RunDetector(d, p) ==
    [raised |-> ~TestsKey(d) /\ LooksUp(d) \cap p.keys = {},
     templates |-> UNION { p.templates[k] : k \in LooksUp(d) \cap p.keys }]

InitPipeline ==
    /\ catalog \in [IndexCategories -> SUBSET AssetNames]
    /\ pipeOut = NoPipeline
    /\ ran = <<>>
    /\ HpIdle /\ DodgeIdle /\ LoopIdle /\ KeyIdle /\ MatchIdle /\ CalIdle /\ CapIdle
    /\ ExitIdle /\ ObsIdle

BuildPipeline ==
    /\ ~pipeOut.built
    /\ pipeOut' = CreateDetectionPipeline(catalog)
    /\ UNCHANGED <<catalog, ran>>
    /\ UNCHANGED <<hpVars, dodgeVars, cfgVars, loopVars, keyVars, matchVars, calVars,
                   capVars, exitVars, obsVars>>

RunDetectors ==
    /\ pipeOut.built
    /\ ran = <<>>
    /\ ran' = [d \in Detectors |-> RunDetector(d, pipeOut)]
    /\ UNCHANGED <<catalog, pipeOut>>
    /\ UNCHANGED <<hpVars, dodgeVars, cfgVars, loopVars, keyVars, matchVars, calVars,
                   capVars, exitVars, obsVars>>

NextPipeline == BuildPipeline \/ RunDetectors

SpecPipeline == InitPipeline /\ [][NextPipeline]_vars

-----------------------------------------------------------------------------
(* Properties.                                                             *)

\* An iteration has perceived a frame and acted on it.
Acted == snapshot # NoSnapshot
Emits(c) == \E i \in 1..Len(emitted) : emitted[i] = c
Moves == { i \in 1..Len(emitted) : emitted[i].type = "Move" }

\* The vector (ax, ay) points the same way as (bx, by).
SameDirection(ax, ay, bx, by) ==
    /\ ax * by - ay * bx = 0
    /\ ax * bx + ay * by > 0

\* C1: in both control loops Retreat is emitted in an iteration only if that
\* iteration's health reading and the 14 readings before it were all known and
\* at or below the threshold (lowRun counts the low readings in a row, an
\* unknown or higher reading resetting it); a single low reading never
\* emits Retreat.
C1_RetreatOnlyAfterFifteenLow ==
    Emits(Retreat) => lowRun >= NexusFrames

\* C2: retreating is terminal; once Retreat has been emitted, no later
\* iteration issues any action (another Retreat, movement, attack), even if
\* health stays low.
C2_RetreatIsTerminal ==
    [][(nexusTaps >= 1 /\ pc = "body" /\ pc' = "check") => emitted' = <<>>]_vars

\* The configured rectangle is a proper rectangle lying wholly beyond an edge
\* of the frame: right of it, below it, or at negative coordinates.
FullyOutside(f, reg) ==
    /\ reg.present
    /\ reg.x1 < reg.x2 /\ reg.y1 < reg.y2
    /\ \/ reg.x1 >= f.w \/ reg.y1 >= f.h \/ reg.x2 <= 0 \/ reg.y2 <= 0

\* C3: for every frame size and every configured health region lying fully
\* outside the frame, the estimate is unknown (None), never a number computed
\* from other pixels of the frame (stated with the OCR reading nothing, so a
\* number can only come from pixels).
C3_OutsideRegionIsUnknown ==
    (hpOut # Pending /\ hpOut.ocr = NoOcr /\ FullyOutside(frame, region))
        => hpOut.value = None

\* C4: a frame whose health region holds none of the health-bar colour never
\* yields a value at or below the retreat threshold, so it cannot by itself
\* cause Retreat, and unknown is never represented as 0.
C4_NoColourNeverRetreats ==
    (Acted /\ frame = BlankFrame)
        => (~IsLow(snapshot.hp, threshold) /\ ~Emits(Retreat))

\* The colour of column x of a frame.
ColourAt(f, x) ==
    f.runs[CHOOSE i \in 1..Len(f.runs) : f.runs[i].lo <= x /\ x < f.runs[i].hi].col

\* The configured rectangle lies within the frame and every pixel of it has
\* the colour col.
FilledWith(f, reg, col) ==
    /\ reg.present
    /\ 0 <= reg.x1 /\ reg.x1 < reg.x2 /\ reg.x2 <= f.w
    /\ 0 <= reg.y1 /\ reg.y1 < reg.y2 /\ reg.y2 <= f.h
    /\ \A x \in reg.x1..(reg.x2 - 1) : ColourAt(f, x) = col

FullHealthColour(impl) == IF impl = "linux" THEN Red ELSE Green

\* The estimate is None or a number in [0, 100].
HpInRange ==
    hpOut # Pending =>
        \/ hpOut.value = None
        \/ /\ IsNum(hpOut.value)
           /\ 0 <= hpOut.value.n
           /\ hpOut.value.n <= 100 * hpOut.value.d

\* C5: for every frame and every calibration get_hp_percent returns None or a
\* number in [0, 100], and a health region filled wholly with the full-health
\* colour yields 100.
C5_RangeAndFullBarReads100 ==
    /\ HpInRange
    /\ (hpOut # Pending /\ FilledWith(frame, region, FullHealthColour(hpOut.impl)))
          => (IsNum(hpOut.value) /\ hpOut.value.n = 100 * hpOut.value.d)

\* dir is a cardinal direction along the axis on which the bullet and the
\* player are further apart, pointing from the bullet towards the player's
\* side (y grows downwards); with equal separations either axis will do.
AwayAlongDominantAxis(dir, b, pp) ==
    LET dx == pp.x - b.x
        dy == pp.y - b.y
        alongX == (dx > 0 /\ dir = "right") \/ (dx < 0 /\ dir = "left")
        alongY == (dy > 0 /\ dir = "down") \/ (dy < 0 /\ dir = "up")
    IN  /\ dir \in {"up", "down", "left", "right"}
        /\ Abs(dx) > Abs(dy) => alongX
        /\ Abs(dy) > Abs(dx) => alongY
        /\ (Abs(dx) = Abs(dy) /\ dx # 0) => (alongX \/ alongY)

\* C6: for every bullet and player position the dodge direction is one of
\* up/down/left/right, lies along the axis of larger separation and points
\* away from the bullet; a bullet at (860,540) with the player at (960,540)
\* gives 'right'.
C6_DodgeAwayAlongDominantAxis ==
    dodgeOut # "" => AwayAlongDominantAxis(dodgeOut, bullet, player)

\* The close-range distance of the loop that is running.
CloseRange == IF platform = "linux" THEN LinuxCloseRange ELSE WinCloseRange

\* C7: in Kiting mode, when the nearest enemy is closer than the close-range
\* threshold the movement emitted in that iteration points opposite the
\* centre-to-enemy vector, whatever bullets are on screen; when the nearest
\* enemy is at or beyond the threshold StopMovement is emitted instead.
C7_KitingMovesAwayFromNearest ==
    (Acted /\ mode = "Kiting" /\ snapshot.enemies # <<>>) =>
        LET c == Centre(frame)
            e == Closest(snapshot.enemies, c)
        IN  IF Dist2(e, c) < CloseRange * CloseRange
            THEN /\ ~Emits(Stop)
                 /\ \A i \in Moves :
                      SameDirection(emitted[i].x, emitted[i].y, c.x - e.x, c.y - e.y)
                 /\ (e # c => Moves # {})
            ELSE Emits(Stop) /\ Moves = {}

\* C8: in Circle-Strafe mode, with an enemy present, the emitted movement
\* direction is the centre-to-enemy vector (dx, dy) rotated to (-dy, dx); it
\* depends on the enemy's position only, not on the iteration count (stated
\* for iterations that see exactly one enemy).
C8_CircleStrafeIsPerpendicular ==
    (Acted /\ mode = "Circle-Strafe" /\ Len(snapshot.enemies) = 1) =>
        LET c == Centre(frame)
            e == snapshot.enemies[1]
        IN  /\ Moves # {}
            /\ \A i \in Moves :
                 SameDirection(emitted[i].x, emitted[i].y, 0 - (e.y - c.y), e.x - c.x)

\* No move_* entry of the map is null, so no movement call raises.
NoNullMove == \A a \in MoveActions : keybinds[a] # Null

\* C9: after any sequence of movement actions at most one of the four
\* directional keys is held (stated for maps without a null entry, under
\* which every press and release of a movement call is carried out).
C9_AtMostOneDirectionHeld ==
    NoNullMove => Cardinality(held \cap DirKeys(keybinds)) <= 1

\* C10: for every key-binding map, after StopMovement none of the keys the
\* movement actions can press (the bound key or its default) remains held.
C10_StopReleasesEveryDirection ==
    (Acted /\ Emits(Stop)) => held \cap DirKeys(keybinds) = {}

\* C11: StopMovement is idempotent: from any held-key state, calling it twice
\* in a row ends in the same held-key state as calling it once, and the
\* second call raises no error.
C11_StopIsIdempotent ==
    stopCalls = 2 => (held = heldOnce /\ ~raised)

\* The loop has left Running: its thread has ended or was ended.
LeftRunning == pc \in {"stopped", "failed", "killed"}

\* C12: on every path by which a control loop leaves Running, the
\* movement-key release step runs before the loop reports stopped
\* (ReportAfterRelease) and returns to Idle (ExitAfterRelease).
ReportAfterRelease == reported => released
ExitAfterRelease == LeftRunning => released
C12_ReleaseBeforeStopped == ReportAfterRelease /\ ExitAfterRelease

\* C13: when frame capture fails on every attempt the control loop stops after
\* a bounded number of consecutive failures: once MaxFailures captures in a
\* row have failed, the loop is no longer iterating.
InLoop == pc \in {"check", "body"}
C13_CaptureFailuresAreBounded == failRun >= MaxFailures => ~InLoop

\* C14: cancellation is cooperative and bounded: a stop request made while the
\* loop is running does not interrupt the iteration in flight (from the body
\* the loop goes on to its next loop test or to its cleanup), and once the
\* flag is cleared the loop test starts no further iteration.
NoPreemption == pc = "body" => pc' \in {"body", "check", "cleanup"}
NoFurtherIteration == (pc = "check" /\ ~running) => pc' # "body"
C14_CancellationIsCooperative == [][NoPreemption /\ NoFurtherIteration]_vars

\* C15: detectors are isolated within an iteration: when one detector raises,
\* the other detectors still run in that iteration, the failed field takes
\* its unknown or empty value, and the decision step of that iteration is
\* still reached.
FailedFieldIsEmpty ==
    CASE lastFail = "hp" -> snapshot.hp = None
      [] lastFail = "enemies" -> snapshot.enemies = <<>>
      [] lastFail = "bullets" -> snapshot.bullets = <<>>
      [] lastFail = "loot" -> snapshot.loot = <<>>
      [] lastFail = "inventory" -> snapshot.invFull = FALSE
      [] OTHER -> TRUE
C15_DetectorsAreIsolated ==
    lastFail # "none" =>
        /\ detRan = Range(DetectorsOf(platform)) \ {lastFail}
        /\ FailedFieldIsEmpty
        /\ decided

\* C16: an iteration whose health reading is unknown completes its decision
\* step without raising, whatever its entity lists and on every iteration
\* number (the iterations that emit the periodic summary included), and it
\* does not retreat.
UnknownHealth == decided /\ snapshot.hp = None
C16_UnknownHealthNeverRaises == UnknownHealth => (~raised /\ ~Emits(Retreat))

\* C17: a template larger than the frame in either dimension yields an empty
\* match list for that template without raising; in a batch the remaining
\* templates are still matched: what the batch returns for each of them is
\* what its own matcher returns, and every place where a template that is
\* not flat occurs exactly in the screen is among its matches.
Oversized(t, s) == t.h > s.h \/ t.w > s.w
Flat(t) == \A k \in DOMAIN TemplateLevels(t) : TemplateLevels(t)[k] = TemplateLevels(t)[1]
OccursAt(t, s, x, y) ==
    /\ x + t.w <= s.w /\ y + t.h <= s.h
    /\ WindowLevels(s, t, x, y) = TemplateLevels(t)
BatchMatches(n) == IF n \in DOMAIN matchOut.multi THEN matchOut.multi[n] ELSE <<>>
C17_OversizedTemplateIsSkipped ==
    matchOut.applied =>
        \A n \in TemplateNames :
            Oversized(templates[n], screen) =>
                /\ ~matchOut.raised
                /\ matchOut.single[n] = <<>>
                /\ BatchMatches(n) = <<>>
                /\ \A m \in TemplateNames \ {n} :
                       /\ BatchMatches(m) = matchOut.single[m]
                       /\ \A x \in 0..(screen.w - 1), y \in 0..(screen.h - 1) :
                              (OccursAt(templates[m], screen, x, y) /\ ~Flat(templates[m]))
                                  => <<x, y, templates[m].w, templates[m].h>>
                                         \in Range(BatchMatches(m))
\* C18: calibration is read with snapshot semantics: every calibration value
\* an iteration uses comes from one and the same version of the calibration,
\* also when reload_calibration runs during the iteration.
C18_OneVersionPerIteration ==
    \A i, j \in 1..Len(calUsed) : calUsed[i].from = calUsed[j].from

\* C19: whenever the calibration file is absent, the initial load and any
\* later reload leave the store holding the default configuration: after a
\* load that found no file, every lookup gives its default.
HoldsDefaults(store) ==
    \A i \in 1..Len(CalReads) : CalGet(store, CalReads[i]) = CalDefault(CalReads[i])
C19_MissingFileGivesDefaults == lastLoad = "absent" => HoldsDefaults(calStore)

\* C20: an update of the threshold or of the movement mode made while the
\* loop runs takes effect at the next iteration boundary: the iteration in
\* flight decides on the threshold and the mode that held when it began.
IterationDecides == pc = "body" /\ pc' # "body" /\ decided'
C20_UpdatesWaitForNextIteration ==
    [][IterationDecides => (threshold = startThr /\ mode = startMode)]_vars

C17_Witness ==
    /\ matchOut.applied
    /\ Oversized(templates["a"], screen)
    /\ ~Oversized(templates["b"], screen)
    /\ BatchMatches("a") = <<>>
    /\ BatchMatches("b") # <<>>

\* C21: whenever at least one enemy is detected, the attack target is the
\* enemy with the smallest distance from the player, and among enemies at the
\* same smallest distance the first in detection order: every aim of the
\* iteration goes to that enemy.
NearestFirst(seq, i, c) ==
    /\ \A j \in 1..Len(seq) : Dist2(seq[i], c) <= Dist2(seq[j], c)
    /\ \A j \in 1..(i - 1) : Dist2(seq[j], c) > Dist2(seq[i], c)
Aims == { i \in 1..Len(emitted) : emitted[i].type = "Aim" }
C21_TargetIsNearestEnemy ==
    (decided /\ snapshot.enemies # <<>>) =>
        \A k \in Aims :
            \E i \in 1..Len(snapshot.enemies) :
                /\ NearestFirst(snapshot.enemies, i, Centre(frame))
                /\ emitted[k].x = snapshot.enemies[i].x
                /\ emitted[k].y = snapshot.enemies[i].y

\* C22: in every iteration in which a detected projectile, at any position in
\* the detection list, lies within the danger radius of the player position,
\* a Dodge is emitted; and no Dodge is emitted when no projectile lies within
\* the radius (stated for RotMGbotLinux.run, iterations that do not retreat,
\* and key maps under which no movement call raises).
Dodges == { i \in 1..Len(emitted) : emitted[i].type = "Dodge" }
DangerousAmong(n) ==
    \E i \in 1..Min(n, Len(snapshot.bullets)) :
        IsBulletDangerous(snapshot.bullets[i], player, DefaultDangerRadius)
Dodging == decided /\ NoNullMove /\ ~Emits(Retreat)
C22_DodgeIffProjectileInRadius ==
    (platform = "linux" /\ Dodging) =>
        (DangerousAmong(Len(snapshot.bullets)) <=> Dodges # {})

\* C23: when loot is present, DropItem for the fixed worst slot is emitted
\* first if and only if the inventory is full, and then Loot is emitted for
\* exactly one item: the first in detection order, over the whole list, whose
\* catalog value is >= 0 (a value of 0 is looted, -1 is skipped); when no
\* item has a value >= 0 no Loot is emitted.
Loots == { i \in 1..Len(emitted) : emitted[i].type = "Loot" }
Drops == { i \in 1..Len(emitted) : emitted[i].type = "Drop" }
LootOf(item) == Loot(item.x, item.y, item.name)
FirstWith(loot, i, Wanted(_)) ==
    /\ Wanted(loot[i])
    /\ \A j \in 1..(i - 1) : ~Wanted(loot[j])
ValueAtLeast0(item) == ItemValue(item.name) >= 0
Looting == decided /\ NoNullMove /\ ~Emits(Retreat) /\ snapshot.loot # <<>>
DropFirstIffFull ==
    /\ Drops # {} <=> snapshot.invFull
    /\ \A k \in Drops : emitted[k] = Drop(WorstSlot) /\ \A l \in Loots : k < l
C23_LootFirstItemOfValue ==
    Looting =>
        /\ DropFirstIffFull
        /\ Cardinality(Loots) <= 1
        /\ \A i \in 1..Len(snapshot.loot) :
               FirstWith(snapshot.loot, i, ValueAtLeast0) => Emits(LootOf(snapshot.loot[i]))
        /\ (\A i \in 1..Len(snapshot.loot) : ~ValueAtLeast0(snapshot.loot[i])) => Loots = {}

\* C24: in an iteration with no enemies and no loot detected the only action
\* emitted is StopMovement: the directional keys are released and no attack,
\* movement press, dodge press, drop or loot input is issued.
Idling ==
    /\ decided /\ NoNullMove /\ ~Emits(Retreat)
    /\ snapshot.enemies = <<>> /\ snapshot.loot = <<>>
OnlyStops == \A i \in 1..Len(emitted) : emitted[i] = Stop
C24_NothingSeenOnlyStopMovement == Idling => (Emits(Stop) /\ OnlyStops)

\* C25: the kill combination (Ctrl+Q) observed by the keyboard listener while
\* the loop is running sets the stop signal, whatever the perception step is
\* doing, and the loop then leaves Running within one iteration (its next loop
\* test starts no further iteration); key presses that are not the kill
\* combination never stop the loop.
KillSetsStopSignal == (~killPressed /\ killPressed') => ~running'
KillEndsLoop == (pc = "check" /\ killPressed) => pc' # "body"
OtherKeysNeverStop ==
    (pc' = pc /\ loopCount' = loopCount /\ stopRequested' = stopRequested
        /\ killPressed' = killPressed) => running' = running
C25_KillCombinationStopsLoop ==
    [][KillSetsStopSignal /\ KillEndsLoop /\ OtherKeysNeverStop]_vars

\* C26: a key binding that is null disables its feature instead of raising:
\* with attack, nexus or drop_item bound to null the corresponding action
\* sends no input and produces no error, and the rest of the iteration
\* proceeds normally.
Disabled(a) == keybinds[a] = Null
AfterDecision == pc = "check" /\ decided /\ NoNullMove
SendsNoAttack == \A i \in 1..Len(emitted) : emitted[i].type \notin {"Aim", "Attack"}
C26_NullBindingDisablesFeature ==
    AfterDecision =>
        /\ ~raised
        /\ Disabled("attack") => SendsNoAttack
        /\ Disabled("nexus") => ~Emits(Retreat)

\* C27: the health estimate of RotMGbot.get_hp_percent is the maximum over all
\* candidate readings of all attempted regions and methods (valid OCR
\* fraction, colour-density tier 100/75/25), and it is unknown exactly when
\* no region produced a candidate >= 0.
HpCands ==
    WinHpAll(frame, WinHpRegions(frame, region), hpOut.ocr,
             Len(WinHpRegions(frame, region)))
SameNum(a, b) == a.n * b.d = b.n * a.d
C27_EstimateIsMaximumCandidate ==
    (hpOut # Pending /\ hpOut.impl = "win") =>
        \E cands \in {HpCands} :
            /\ hpOut.value = None <=> \A i \in 1..Len(cands) : cands[i].n < 0
            /\ hpOut.value # None =>
                   /\ \E i \in 1..Len(cands) : SameNum(cands[i], hpOut.value)
                   /\ \A i \in 1..Len(cands) : ~Gt(cands[i], hpOut.value)
\* Two regions gave different candidates >= 0 and the colour tier of the last
\* region is not the largest.
C27_Witness ==
    /\ hpOut # Pending /\ hpOut.impl = "win" /\ region = AbsentRegion
    /\ \E cands \in {HpCands} :
          /\ cands[Len(cands)].n >= 0
          /\ \E i \in 1..Len(cands) : Gt(cands[i], cands[Len(cands)])
          /\ \E i \in 1..Len(cands) : SameNum(cands[i], hpOut.value)

\* C28: when the tracked window is lost, the capture call of that same
\* iteration falls back to the full primary display and returns a frame:
\* window loss alone never makes capture fail.
C28_LostWindowFallsBackToScreen ==
    (capOut # "pending" /\ lostAtCall) => capOut = "screen"

\* C29: for each category, when the catalog holds templates the perception
\* step runs a matcher built from them: the key each detector looks up
\* (find_obstacles: 'terrain'; find_loot: 'ui_elements' / 'effects') is a key
\* the pipeline creates, and the matcher's templates are resolved from the
\* same category they were loaded from.
CatalogCategory(k) == IF k = "ui_elements" THEN "ui" ELSE k
TemplatesOf(category) == { <<category, n>> : n \in catalog[category] }
HasRun == pipeOut.built /\ DOMAIN ran = Detectors
C29_DetectorsRunCatalogMatchers ==
    HasRun =>
        \A d \in Detectors : \A k \in LooksUp(d) :
            catalog[CatalogCategory(k)] # {} =>
                /\ k \in pipeOut.keys
                /\ pipeOut.templates[k] = TemplatesOf(CatalogCategory(k))
                /\ TemplatesOf(CatalogCategory(k)) \subseteq ran[d].templates

\* C30: a stop request is never lost: if stop() is called at any point after
\* the loop's thread has been started, including before run() has executed
\* its first statement, the loop eventually reaches the stopped state without
\* a second stop request.
C30_StopRequestIsNeverLost == stopRequested ~> (pc = "stopped")

-----------------------------------------------------------------------------
(* What does hold of one of the two implementations.                       *)

\* RotMGbot.run debounces: it emits Retreat only on the 15th low reading in a row.
WinLoopDebounces == platform = "win" => C1_RetreatOnlyAfterFifteenLow

\* RotMGbotLinux.run stops after its Retreat: one tap, and the loop not running.
LinuxRetreatStops ==
    (platform = "linux" /\ nexusTaps >= 1) => (nexusTaps = 1 /\ ~running)

\* detection.get_hp_percent reads None for a region fully outside the frame.
LinuxOutsideRegionIsUnknown ==
    (hpOut.impl = "linux" /\ FullyOutside(frame, region)) => hpOut.value = None

\* RotMGbot.get_hp_percent reads None, never 0, where no candidate has a signal.
WinNoColourIsUnknown ==
    (platform = "win" /\ Acted /\ frame = BlankFrame) => snapshot.hp = None

\* keyboard.move_towards holds at most one directional key.
LinuxAtMostOneDirectionHeld == platform = "linux" => C9_AtMostOneDirectionHeld

\* Whatever the map, a second StopMovement leaves the held keys as the first did.
StopTwiceSameKeys == stopCalls = 2 => held = heldOnce

\* With no null move_* entry, no call of StopMovement raises.
StopNeverRaisesWithoutNull == (stopCalls >= 1 /\ NoNullMove) => ~raised

\* RotMGbot.run, unless its thread is terminated, releases before it reports.
WinReleasesBeforeReport ==
    platform = "win" => (reported => released) /\ (pc \in {"stopped", "failed"} => released)

\* RotMGbotLinux.run, unless its thread is terminated, has released the keys by
\* the time run() returns.
\* RotMGbotLinux.run counts the captures that failed in a row, resets the count
\* on a successful capture, and leaves the loop at the tenth.
LinuxCaptureFailuresAreBounded ==
    platform = "linux" =>
        /\ failures = failRun
        /\ C13_CaptureFailuresAreBounded
LinuxLeavesOnlyAtTheBound ==
    [][(platform = "linux" /\ pc = "body" /\ pc' = "cleanup")
          => failRun' = MaxFailures]_vars

\* The flag alone is cooperative: once cleared it stays cleared while the loop
\* runs, the loop test then starts no further iteration, and an iteration in
\* flight is cut short by nothing but the termination of the thread.
FlagIsCooperative ==
    [][/\ NoFurtherIteration
       /\ (InLoop /\ ~running) => ~running'
       /\ ~NoPreemption => (stopRequested /\ pc' = "killed")]_vars

\* RotMGbot.run isolates its three detectors.
WinDetectorsAreIsolated == platform = "win" => C15_DetectorsAreIsolated

\* Unknown health never retreats in either loop; RotMGbotLinux.run never
\* raises on it, and RotMGbot.run raises on it only on the iterations whose
\* number is a multiple of LogEvery.
UnknownHealthNeverRetreats == UnknownHealth => ~Emits(Retreat)
LinuxUnknownHealthNeverRaises == platform = "linux" => C16_UnknownHealthNeverRaises
WinRaisesOnlyWhenLogging ==
    (platform = "win" /\ UnknownHealth /\ raised) => loopCount % LogEvery = 0

\* Each lookup by itself is whole: its value is the one its version holds.
EachLookupIsWhole ==
    \A i \in 1..Len(calUsed) :
        calUsed[i].value = CalGet(calUsed[i].from, calUsed[i].field)
\* Every load gives the defaults when the file cannot be parsed; a load that
\* finds no file keeps the defaults when the store held them before, as it
\* does at the first load.
UnreadableFileGivesDefaults == lastLoad = "corrupt" => HoldsDefaults(calStore)
MissingFileKeepsDefaults ==
    [][(HoldsDefaults(calStore) /\ calFile = "absent") => HoldsDefaults(calStore')]_vars

\* An update needs no restart: RotMGbotLinux.run retreats only on a reading
\* at or below the threshold as it stands when the iteration decides.
LinuxRetreatsOnCurrentThreshold ==
    [][(IterationDecides /\ platform = "linux" /\ emitted' = <<Retreat>>)
          => IsLow(snapshot'.hp, threshold)]_vars

\* RotMGbot.run kites away from the nearest enemy, the first detected among
\* the nearest (no bullet on screen, the enemy not at the centre).
WinKitesFromNearestFirst ==
    (platform = "win" /\ decided /\ mode = "Kiting" /\ snapshot.enemies # <<>>
       /\ snapshot.bullets = <<>>) =>
        \A k \in Moves :
            \E i \in 1..Len(snapshot.enemies) :
                /\ NearestFirst(snapshot.enemies, i, Centre(frame))
                /\ emitted[k].x = Centre(frame).x - snapshot.enemies[i].x
                /\ emitted[k].y = Centre(frame).y - snapshot.enemies[i].y

\* RotMGbotLinux.run dodges exactly when one of the first three projectiles
\* of the list lies within the radius, and then once.
LinuxDodgesAmongFirstThree ==
    (platform = "linux" /\ Dodging) =>
        /\ DangerousAmong(3) <=> Dodges # {}
        /\ Cardinality(Dodges) <= 1

\* RotMGbotLinux.run drops first exactly when the inventory is full, and loots
\* the first of the first two items whose value is above 0, if there is one.
ValueAbove0(item) == ItemValue(item.name) > 0
FirstTwo(loot) == SubSeq(loot, 1, Min(2, Len(loot)))
LinuxLootsFirstOfTwoAbove0 ==
    Looting =>
        /\ DropFirstIffFull
        /\ Cardinality(Loots) <= 1
        /\ \A i \in 1..Len(FirstTwo(snapshot.loot)) :
               FirstWith(FirstTwo(snapshot.loot), i, ValueAbove0)
                   => Emits(LootOf(snapshot.loot[i]))
        /\ (\A i \in 1..Len(FirstTwo(snapshot.loot)) : ~ValueAbove0(snapshot.loot[i]))
               => Loots = {}

\* Without enemies and loot RotMGbotLinux.run releases the keys and emits
\* nothing else, unless one of the first three projectiles is dangerous;
\* RotMGbot.run emits nothing but StopMovement, and emits it in the modes
\* Kiting and Circle-Strafe.
LinuxIdleOnlyStopsUnlessDodging ==
    (platform = "linux" /\ Idling) =>
        /\ Emits(Stop)
        /\ ~DangerousAmong(3) => OnlyStops
WinIdleOnlyStops ==
    (platform = "win" /\ Idling) =>
        /\ OnlyStops
        /\ Emits(Stop) <=> startMode \in {"Kiting", "Circle-Strafe"}

\* No key the listener delivers clears the running flag: the flag changes
\* only in a step of the loop itself or of BotWindow.stop_bot.
NoKeyStopsLoop ==
    [][(pc' = pc /\ loopCount' = loopCount /\ stopRequested' = stopRequested)
          => running' = running]_vars

\* With drop_item bound to null, as in DEFAULT_SETTINGS, and attack and nexus
\* bound to keys, dropping sends nothing and no iteration raises.
DropDisabledIsSilent ==
    (AfterDecision /\ keybinds = DefaultKeybinds) => ~raised
\* With nexus bound to null the retreat of either loop raises; with attack
\* bound to null RotMGbot.attack raises and RotMGbotLinux.run, which never
\* reads the binding, clicks all the same.
NullNexusOrAttackRaises ==
    AfterDecision =>
        /\ (Disabled("nexus") /\ Emits(Retreat)) => raised
        /\ (Disabled("attack") /\ Emits(Attack)) => (raised <=> platform = "win")

\* What the two capture functions do when the tracked window is gone:
\* RotMGbotLinux.capture_game_screen always returns a frame, of the old region
\* or of the screen; RotMGbot.capture_rotmg_window returns None once when no
\* other window is found, forgets the handle, and takes the screen from the
\* next call on.
LinuxCaptureNeverFails == platform = "linux" => capOut # "None"
WinCaptureFallsBackNextCall ==
    [][(platform = "win" /\ capOut = "None" /\ lostAtCall /\ capCalls' = capCalls + 1)
          => capOut' = "screen"]_vars

\* What the pipeline does give: find_enemies and find_bullets run matchers of
\* exactly the catalog's enemy and projectile templates; find_obstacles never
\* runs a matcher; find_loot runs no ui template, and only terrain templates
\* whose names the ui category also holds.
EnemyAndProjectileMatchersAreBuilt ==
    HasRun =>
        /\ catalog["enemies"] # {} => ran["find_enemies"].templates = TemplatesOf("enemies")
        /\ catalog["projectiles"] # {}
              => ran["find_bullets"].templates = TemplatesOf("projectiles")
TerrainAndLootMatchersAreNot ==
    HasRun =>
        /\ ran["find_obstacles"].templates = {}
        /\ ran["find_loot"].templates
              = { <<"terrain", n>> : n \in catalog["ui"] \cap catalog["terrain"] }

\* A stop asked for while the loop is iterating is honoured: the flag stays
\* cleared and the run reaches "stopped".  One asked for before run() has
\* set the flag is overwritten by run().
StopWhileLoopingIsHonoured ==
    (stopRequested /\ pc \in WhileLooping /\ ~running) ~> (pc = "stopped")
StopAtEntryIsOverwritten ==
    [][(pc = "entry" /\ stopRequested /\ pc' = "check") => running']_vars

LinuxReleasesBeforeReturn == (platform = "linux" /\ pc = "stopped") => released

=============================================================================
